---- MODULE Spec2Model ----
(***************************************************************************)
(* lug: an embedded DSL for PEG parsers.  This module models the grammar   *)
(* compiler (encoder, combinators, linker `start`) and the parsing         *)
(* virtual machine of src/lug/lug.hpp.  A program is a sequence of 32-bit  *)
(* words; a word is a prefix {op, aux, val}, an offset, or up to four      *)
(* bytes of inline string data.  Bytes are one-character strings.          *)
(***************************************************************************)
EXTENDS Integers, Sequences, FiniteSets, TLC

(***************************************************************************)
(* Small helpers on sequences.                                             *)
(***************************************************************************)
Min(a, b) == IF a <= b THEN a ELSE b

Take(s, n) == SubSeq(s, 1, Min(n, Len(s)))

Drop(s, n) == SubSeq(s, Min(n, Len(s)) + 1, Len(s))

Back(s) == s[Len(s)]

PopBack(s) == SubSeq(s, 1, Len(s) - 1)

(***************************************************************************)
(* UTF-8 primitives, as namespace utf8 of lug.hpp has them.  The byte "T"  *)
(* is a continuation byte (10xxxxxx), "L" the lead byte of a two-byte      *)
(* rune; every other byte is a one-byte rune.                              *)
(***************************************************************************)
is_lead(c) == c /= "T"

count_runes(s) == Cardinality({i \in 1..Len(s) : is_lead(s[i])})

(* The distance from the first byte to the next lead byte, or to the end.  *)
size_of_first_rune(s) ==
    IF s = <<>> THEN 0
    ELSE IF \A i \in 2..Len(s) : ~is_lead(s[i]) THEN Len(s)
    ELSE (CHOOSE i \in 2..Len(s) :
              is_lead(s[i]) /\ \A j \in 2..(i - 1) : ~is_lead(s[j])) - 1

(* Byte order, for the lexicographic comparison of std::string::compare.   *)
ByteVal(c) ==
    CASE c = "\n" -> 10 [] c = "+" -> 43 [] c = "a" -> 97 [] c = "b" -> 98
      [] c = "c" -> 99 [] c = "L" -> 195 [] c = "T" -> 169 [] OTHER -> 0

compare(x, y) ==
    LET n == Min(Len(x), Len(y))
        differ == {i \in 1..n : ByteVal(x[i]) /= ByteVal(y[i])}
    IN IF differ /= {}
       THEN LET i == CHOOSE i \in differ : \A j \in differ : i <= j
            IN IF ByteVal(x[i]) < ByteVal(y[i]) THEN -1 ELSE 1
       ELSE IF Len(x) < Len(y) THEN -1
       ELSE IF Len(x) > Len(y) THEN 1
       ELSE 0

(***************************************************************************)
(* Instruction words.                                                      *)
(***************************************************************************)
operands_off == 64

operands_str == 128

operands_altcode == 63

maxstrlen == 256

altcode_accept_final == 1

altcode_commit_back == 1

altcode_commit_partial == 2

Pf(op, aux, val) == [k |-> "pf", op |-> op, aux |-> aux, val |-> val]

OffWord(o) == [k |-> "off", off |-> o]

StrWord(s) == [k |-> "str", str |-> s]

HasOff(aux) == (aux \div operands_off) % 2 = 1

HasStr(aux) == (aux \div operands_str) % 2 = 1

AltOf(aux) == aux % (operands_altcode + 1)

(* instruction::length(prefix)                                             *)
length(pf) ==
    1 + (IF HasOff(pf.aux) THEN 1 ELSE 0)
      + (IF HasStr(pf.aux) THEN ((pf.val % 256) \div 4) + 1 ELSE 0)

(* The n bytes of the string that begins at word at + 1; a word holds four *)
(* of them.                                                                *)
StrData(code, at, n) ==
    [i \in 1..n |-> code[at + 1 + ((i - 1) \div 4)].str[((i - 1) % 4) + 1]]

(* A decode that steps over the whole words of the string only.           *)
decode_whole_words(code, pc) ==
    LET pf   == code[pc + 1]
        pc1  == pc + 1
        hoff == HasOff(pf.aux)
        off  == IF hoff THEN code[pc1 + 1].off ELSE 0
        pc2  == IF hoff THEN pc1 + 1 ELSE pc1
        hstr == HasStr(pf.aux)
        n    == (pf.val % 256) + 1
    IN [op  |-> pf.op,
        alt |-> AltOf(pf.aux),
        imm |-> IF hstr THEN (pf.val \div 256) + 1 ELSE pf.val,
        off |-> off,
        str |-> IF hstr THEN StrData(code, pc2, n) ELSE <<>>,
        pc  |-> IF hstr THEN pc2 + (n \div 4) ELSE pc2]

(* instruction::decode(code, pc): pc is 0-based as in the source.          *)
decode(code, pc) ==
    LET pf   == code[pc + 1]
        pc1  == pc + 1
        hoff == HasOff(pf.aux)
        off  == IF hoff THEN code[pc1 + 1].off ELSE 0
        pc2  == IF hoff THEN pc1 + 1 ELSE pc1
        hstr == HasStr(pf.aux)
        n    == (pf.val % 256) + 1
    IN [op  |-> pf.op,
        alt |-> AltOf(pf.aux),
        imm |-> IF hstr THEN (pf.val \div 256) + 1 ELSE pf.val,
        off |-> off,
        str |-> IF hstr THEN StrData(code, pc2, n) ELSE <<>>,
        pc  |-> IF hstr THEN pc2 + (((pf.val % 256) + 4) \div 4) ELSE pc2]

(***************************************************************************)
(* program                                                                 *)
(***************************************************************************)
EmptyProgram ==
    [instructions |-> <<>>, predicates |-> <<>>, actions |-> <<>>,
     captures |-> <<>>, matches_eps |-> TRUE]

RECURSIVE ConcatLoop(_, _, _, _, _, _)
ConcatLoop(acc, src, i, np, na, nc) ==
    IF i > Len(src) THEN acc
    ELSE LET instr == src[i]
             valoffset == CASE instr.op = "predicate" -> np
                            [] instr.op = "action" -> na
                            [] instr.op = "end_capture" -> nc
                            [] OTHER -> 0
             fixed == IF valoffset /= 0
                      THEN [instr EXCEPT !.val = instr.val + valoffset]
                      ELSE instr
             j == i + length(instr)
         IN ConcatLoop(acc \o <<fixed>> \o SubSeq(src, i + 1, j - 1),
                       src, j, np, na, nc)

(* program::concatenate(src)                                               *)
concatenate(dst, src) ==
    [instructions |-> ConcatLoop(dst.instructions, src.instructions, 1,
                                 Len(dst.predicates), Len(dst.actions),
                                 Len(dst.captures)),
     predicates  |-> dst.predicates \o src.predicates,
     actions     |-> dst.actions \o src.actions,
     captures    |-> dst.captures \o src.captures,
     matches_eps |-> dst.matches_eps /\ src.matches_eps]

(***************************************************************************)
(* rule: a program and its callees (rule, program, offset, left_most).     *)
(* Rules and their programs are referred to by the rule's name.            *)
(***************************************************************************)
EmptyRule == [program_ |-> EmptyProgram, callees_ |-> <<>>]

(***************************************************************************)
(* encoder.  kind "length" is instruction_length_evaluator, kind "rule" is *)
(* rule_encoder, kind "program" is program_encoder.                        *)
(***************************************************************************)
EncoderKinds == {"length", "program", "rule"}

NewEncoder(kind) ==
    [kind |-> kind, prog |-> EmptyProgram, length_ |-> 0, callees |-> <<>>,
     zero_length_ |-> <<TRUE>>]

do_length(d) ==
    IF d.kind = "length" THEN d.length_ ELSE Len(d.prog.instructions)

(* encoder::append(instruction) -> do_append(instruction)                  *)
append(d, w) ==
    IF d.kind = "length" THEN [d EXCEPT !.length_ = @ + 1]
    ELSE [d EXCEPT !.prog.instructions = Append(@, w)]

(* encoder::append(const program&) -> do_append(const program&)           *)
append_program(d, p) ==
    IF d.kind = "length"
    THEN [d EXCEPT !.length_ = @ + Len(p.instructions)]
    ELSE [d EXCEPT !.prog = concatenate(@, p)]

zclr(d, c) ==
    IF c THEN [d EXCEPT !.zero_length_[Len(d.zero_length_)] = FALSE] ELSE d

zpop(d) == [d EXCEPT !.zero_length_ = PopBack(@)]

zpsh(d, n) ==
    [d EXCEPT !.zero_length_ = Append(@, @[Len(@) - n + 1])]

(* encoder::zand(n)                                                        *)
zand(d, n) ==
    LET zl == d.zero_length_
        z  == \A i \in (Len(zl) - n + 1)..Len(zl) : zl[i]
        r  == SubSeq(zl, 1, Len(zl) - n)
    IN [d EXCEPT !.zero_length_ = [r EXCEPT ![Len(r)] = z]]

(* encode(op, imm) / encode(op, alt, imm)                                  *)
encode(d, op, alt, imm) == append(d, Pf(op, alt, imm))

(* encode(op, off, imm) / encode(op, alt, off, imm)                        *)
encode_off(d, op, alt, off, imm) ==
    append(append(d, Pf(op, operands_off + alt, imm)), OffWord(off))

(* do { do_append(instruction{subsequence}); remove_prefix(4) } while ...  *)
AppendStrWords(d, s) ==
    LET n == IF s = <<>> THEN 1 ELSE (Len(s) + 3) \div 4
        words == [i \in 1..n |->
                    StrWord(SubSeq(s, (4 * i) - 3, Min(4 * i, Len(s))))]
    IN IF d.kind = "length" THEN [d EXCEPT !.length_ = @ + n]
       ELSE [d EXCEPT !.prog.instructions = @ \o words]

(* encode(op, val, subsequence)                                            *)
encode_str(d, op, val, subsequence) ==
    IF subsequence /= <<>>
    THEN AppendStrWords(
             append(d, Pf(op, operands_str,
                          ((val - 1) * 256) + (Len(subsequence) - 1))),
             subsequence)
    ELSE d

(* while (!subsequence.empty() && !is_lead(subsequence.back()))           *)
(*     subsequence.remove_suffix(1);                                       *)
TrimToLead(s) ==
    LET trailing == {i \in 1..Len(s) : \A j \in i..Len(s) : ~is_lead(s[j])}
    IN Take(s, Len(s) - Cardinality(trailing))

RECURSIVE match_blocks(_, _)
match_blocks(d, sequence) ==
    IF Len(sequence) > maxstrlen
    THEN LET t   == TrimToLead(Take(sequence, maxstrlen))
             sub == IF t /= <<>> THEN PopBack(t) ELSE t
         IN match_blocks(encode_str(d, "match", count_runes(sub), sub),
                         Drop(sequence, Len(sub)))
    ELSE zclr(encode_str(d, "match", count_runes(sequence), sequence),
              sequence /= <<>>)

(* How encoder::match(sequence) ends and the strings it has encoded by     *)
(* then.  A block that comes out empty is encoded as nothing and removes   *)
(* nothing from the sequence, so the while loop is at the same sequence    *)
(* again ("loops"); encode throws when the rune count or the size is not   *)
(* in 1..maxstrlen.                                                        *)
RECURSIVE BlockLoop(_, _)
BlockLoop(blocks, sequence) ==
    IF Len(sequence) > maxstrlen
    THEN LET t   == TrimToLead(Take(sequence, maxstrlen))
             sub == IF t /= <<>> THEN PopBack(t) ELSE t
         IN IF sub = <<>> THEN [blocks |-> blocks, outcome |-> "loops"]
            ELSE IF count_runes(sub) \notin 1..maxstrlen
            THEN [blocks |-> blocks, outcome |-> "resource_limit_error"]
            ELSE BlockLoop(Append(blocks, sub), Drop(sequence, Len(sub)))
    ELSE IF sequence = <<>> THEN [blocks |-> blocks, outcome |-> "returns"]
    ELSE IF count_runes(sequence) \notin 1..maxstrlen
    THEN [blocks |-> blocks, outcome |-> "resource_limit_error"]
    ELSE [blocks |-> Append(blocks, sequence), outcome |-> "returns"]

(* encoder::match(sequence)                                                *)
match(d, sequence) == match_blocks(d, sequence)

(* encoder::match_range(first, last)                                       *)
match_range(d, first, last) ==
    IF first = last THEN match(d, first)
    ELSE zclr(encode_str(d, "match_range", Len(first), first \o last), TRUE)

(* do_add_semantic_predicate / _action / _capture_action                   *)
add_item(d, table, item) ==
    IF d.kind = "length" THEN [d |-> d, imm |-> 0]
    ELSE [d   |-> [d EXCEPT !.prog[table] = Append(@, item)],
          imm |-> Len(d.prog[table])]

encode_item(d, op, table, item) ==
    LET r == add_item(d, table, item) IN append(r.d, Pf(op, 0, r.imm))

(* The rule pointer of a callee that is a program or a grammar (nullptr).  *)
NoRule == ""

(* encoder::add_callee(r, p, n); programs are named by the rule or the     *)
(* grammar that owns them, p being the program of env[p].                  *)
add_callee(env, d, r, p, n) ==
    LET left_most == Back(d.zero_length_)
        d1 == [d EXCEPT !.zero_length_[Len(d.zero_length_)] =
                            left_most /\ env[p].program_.matches_eps]
    IN IF d.kind = "rule"
       THEN [d1 EXCEPT !.callees =
                Append(@, [rule |-> r, program |-> p, offset |-> n,
                           left_most |-> left_most])]
       ELSE d1

(* The offset encoder::call(const grammar&) encodes: the callee grammar's  *)
(* header, call and accept, is three words long.                           *)
GrammarHeader == 3

(* encoder::call(const grammar& g, prec)                                   *)
encoder_call_grammar(env, d, name, prec) ==
    encode_off(add_callee(env, d, NoRule, name, do_length(d)),
               "call", 0, GrammarHeader, prec)

InlineLimit == 8

(* The condition under which encoder::call(rule) inlines the callee.       *)
ShouldInline(env, name, prec, allow_inlining, encoding) ==
    LET r == env[name] IN
        /\ allow_inlining
        /\ prec <= 0
        /\ name /= encoding
        /\ r.callees_ = <<>>
        /\ r.program_.instructions /= <<>>
        /\ Len(r.program_.instructions) <= InlineLimit
        /\ Len(r.program_.predicates) <= 1
        /\ Len(r.program_.actions) <= 1
        /\ Len(r.program_.captures) <= 1

(* encoder::call(const rule&, prec, allow_inlining); `encoding` names the  *)
(* rule whose currently_encoding_ flag is set.                             *)
encoder_call(env, d, name, prec, allow_inlining, encoding) ==
    IF ShouldInline(env, name, prec, allow_inlining, encoding)
    THEN append_program(zclr(d, ~env[name].program_.matches_eps),
                        env[name].program_)
    ELSE encode_off(add_callee(env, d, name, name, do_length(d)),
                    "call", 0, 0, prec)

(***************************************************************************)
(* Expressions of the DSL.  An expression is a record tagged by t; its     *)
(* evaluation drives an encoder exactly as the C++ closures do.            *)
(***************************************************************************)
chr(c) == [t |-> "chr", c |-> c]

Lit(s) == [t |-> "lit", s |-> s]

Range(a, b) == [t |-> "range", first |-> a, last |-> b]

Cls(imm) == [t |-> "cls", imm |-> imm]

Jump(off) == [t |-> "jump", off |-> off]

(* [](encoder& d) { d.encode(opcode::commit, alt, off); }                  *)
RawCommit(alt, off) == [t |-> "commit", alt |-> alt, off |-> off]

any == [t |-> "any"]

cut == [t |-> "cut"]

ilr == [t |-> "ilr"]

eps == [t |-> "eps"]

eoi == [t |-> "eoi"]

Not(e) == [t |-> "not", e |-> e]

And(e) == [t |-> "and", e |-> e]

Star(e) == [t |-> "star", e |-> e]

Alt(a, b) == [t |-> "alt", a |-> a, b |-> b]

Then(a, b) == [t |-> "seq", a |-> a, b |-> b]

Act(e, a) == [t |-> "act", e |-> e, cb |-> a]

Cap(e, a) == [t |-> "cap", e |-> e, cb |-> a]

Pred(p) == [t |-> "pred", p |-> p]

Ref(name, prec) == [t |-> "ref", name |-> name, prec |-> prec]

(* A grammar used as an expression (call_expression of a grammar).         *)
Gram(name) == [t |-> "gram", name |-> name]

(* language::operator+, operator~                                          *)
Plus(e) == Then(e, Star(e))

Opt(e) == Alt(e, eps)

RECURSIVE evaluate(_, _, _, _)
(* encoder::evaluate_length(e)                                             *)
evaluate_length(env, d, e, encoding) ==
    IF d.kind /= "length"
    THEN do_length(evaluate(env, NewEncoder("length"), e, encoding))
    ELSE 0

(* language::operator!                                                     *)
eval_not(env, d, e, encoding) ==
    encode(zpop(evaluate(env,
                         zpsh(encode_off(d, "choice", 0,
                                  1 + evaluate_length(env, d, e.e, encoding),
                                  0), 1),
                         e.e, encoding)),
           "fail", 0, 1)

(* language::operator& (unary)                                             *)
eval_and(env, d, e, encoding) ==
    encode(encode_off(zpop(evaluate(env,
                         zpsh(encode_off(d, "choice", 0,
                                  2 + evaluate_length(env, d, e.e, encoding),
                                  0), 1),
                         e.e, encoding)),
                      "commit", altcode_commit_back, 1, 0),
           "fail", 0, 0)

(* language::operator* (unary)                                             *)
eval_star(env, d, e, encoding) ==
    LET n == evaluate_length(env, d, e.e, encoding)
    IN encode_off(zpop(evaluate(env,
                         zpsh(encode_off(d, "choice", 0, 2 + n, 0), 1),
                         e.e, encoding)),
                  "commit", altcode_commit_partial, 0 - (2 + n), 0)

(* language::operator|                                                     *)
eval_alt(env, d, e, encoding) ==
    LET d1 == zpsh(encode_off(d, "choice", 0,
                       2 + evaluate_length(env, d, e.a, encoding), 0), 1)
        d2 == evaluate(env, d1, e.a, encoding)
        d3 == zpsh(encode_off(d2, "commit", 0,
                       evaluate_length(env, d2, e.b, encoding), 0), 2)
    IN zand(evaluate(env, d3, e.b, encoding), 2)

(* constexpr eps                                                           *)
(* An eps that asks for a character: match_any in place of match "".      *)
eps_as_any(d) == zclr(encode(d, "match_any", 0, 0), TRUE)

eval_eps(d) == encode(d, "match", 0, 0)

(* constexpr eoi                                                           *)
eval_eoi(d) ==
    encode(encode(encode_off(d, "choice", 0, 2, 0), "match_any", 0, 0),
           "fail", 0, 1)

(* language::operator< : capture form and action form                      *)
eval_cap(env, d, e, encoding) ==
    encode_item(evaluate(env, encode(d, "begin_capture", 0, 0), e.e, encoding),
                "end_capture", "captures", e.cb)

eval_act(env, d, e, encoding) ==
    encode_item(evaluate(env, d, e.e, encoding), "action", "actions", e.cb)

(* encoder::evaluate(e): the expression made from e drives this encoder.   *)
evaluate(env, d, e, encoding) ==
    IF d.kind \notin EncoderKinds THEN d ELSE
    CASE e.t = "chr"   -> match(d, <<e.c>>)
      [] e.t = "lit"   -> match(d, e.s)
      [] e.t = "range" -> match_range(d, <<e.first>>, <<e.last>>)
      [] e.t = "cls"   -> zclr(encode(d, "match_class", 0, e.imm), TRUE)
      [] e.t = "jump"  -> encode_off(d, "jump", 0, e.off, 0)
      [] e.t = "commit" -> encode_off(d, "commit", e.alt, e.off, 0)
      [] e.t = "any"   -> zclr(encode(d, "match_any", 0, 0), TRUE)
      [] e.t = "cut"   -> encode(d, "accept", 0, 0)
      [] e.t = "ilr"   -> encode(d, "newline", 0, 0)
      [] e.t = "eps"   -> eval_eps(d)
      [] e.t = "eoi"   -> eval_eoi(d)
      [] e.t = "not"   -> eval_not(env, d, e, encoding)
      [] e.t = "and"   -> eval_and(env, d, e, encoding)
      [] e.t = "star"  -> eval_star(env, d, e, encoding)
      [] e.t = "alt"   -> eval_alt(env, d, e, encoding)
      [] e.t = "seq"   ->
            evaluate(env, evaluate(env, d, e.a, encoding), e.b, encoding)
      [] e.t = "act"   -> eval_act(env, d, e, encoding)
      [] e.t = "cap"   -> eval_cap(env, d, e, encoding)
      [] e.t = "pred"  -> encode_item(d, "predicate", "predicates", e.p)
      [] e.t = "ref"   ->
            encoder_call(env, d, e.name, e.prec, TRUE, encoding)
      [] e.t = "gram"  -> encoder_call_grammar(env, d, e.name, 0)

(* rule::rule(const E& e): a rule_encoder evaluates e, then                *)
(* ~program_encoder stores matches_eps.                                    *)
make_rule(env, name, body) ==
    LET d == evaluate(env, NewEncoder("rule"), body, name)
    IN [program_ |-> [d.prog EXCEPT !.matches_eps = Back(d.zero_length_)],
        callees_ |-> d.callees]

(* A grammar source is a sequence of rule definitions [name, body], made   *)
(* in order; the last one is the start rule.  Rules not yet defined are    *)
(* declared and empty.  A definition [name, program] is a grammar made     *)
(* earlier: it has a program and no callee list.                           *)
RECURSIVE BuildEnv(_, _, _)
BuildEnv(env, defs, i) ==
    IF i > Len(defs) \/ defs[i].name \notin DOMAIN env THEN env
    ELSE BuildEnv([env EXCEPT ![defs[i].name] =
                       IF "program" \in DOMAIN defs[i]
                       THEN [program_ |-> defs[i].program, callees_ |-> <<>>]
                       ELSE make_rule(env, defs[i].name, defs[i].body)],
                  defs, i + 1)

RuleEnv(defs) ==
    BuildEnv([n \in {defs[i].name : i \in 1..Len(defs)} |-> EmptyRule],
             defs, 1)

(***************************************************************************)
(* start(start_rule): the linker.                                          *)
(***************************************************************************)
(* The scan of the caller frames for one left-most callee: "lr" when the   *)
(* callee's rule is found through left-most frames only, else "enqueue".   *)
RECURSIVE ScanCallers(_, _, _)
ScanCallers(callstack, callee_rule, i) ==
    IF i = 0 THEN "enqueue"
    ELSE IF callstack[i].rule = callee_rule THEN "lr"
    ELSE IF ~callstack[i].lm THEN "enqueue"
    ELSE ScanCallers(callstack, callee_rule, i - 1)

(* st.scans lists, for the callees the loop has gone through, the callee   *)
(* and the caller frames it was looked for in.                             *)
RECURSIVE LinkCallees(_, _, _, _, _)
LinkCallees(st, callees, k, callstack, address) ==
    IF k > Len(callees) THEN st
    ELSE LET c  == callees[k]
             s1 == [st EXCEPT !.calls =
                       Append(@, [program |-> c.program,
                                  addr |-> address + c.offset]),
                              !.scans =
                       Append(@, [callee |-> c, callstack |-> callstack])]
             scan == IF c.rule /= NoRule /\ c.left_most
                     THEN ScanCallers(callstack, c.rule, Len(callstack))
                     ELSE "enqueue"
             s2 == IF scan = "lr"
                   THEN [s1 EXCEPT !.left_recursive = @ \cup {c.program}]
                   ELSE [s1 EXCEPT !.unprocessed =
                            Append(@, [callstack |->
                                         Append(callstack,
                                                [rule |-> c.rule,
                                                 lm |-> c.left_most]),
                                       program |-> c.program])]
         IN LinkCallees(s2, callees, k + 1, callstack, address)

RECURSIVE LinkLoop(_, _)
LinkLoop(env, st) ==
    IF st.unprocessed = <<>> THEN st
    ELSE LET top == Back(st.unprocessed)
             s0  == [st EXCEPT !.unprocessed = PopBack(@)]
             address == Len(s0.grprogram.instructions)
         IN IF top.program \in DOMAIN s0.addresses
            THEN LinkLoop(env, s0)
            ELSE LET gp == concatenate(s0.grprogram,
                                       env[top.program].program_)
                     s1 == [s0 EXCEPT
                              !.addresses = [n \in DOMAIN @ \cup {top.program}
                                   |-> IF n = top.program THEN address
                                       ELSE @[n]],
                              !.grprogram = [gp EXCEPT !.instructions =
                                   Append(@, Pf("ret", 0, 0))]]
                     top_rule == Back(top.callstack).rule
                 IN LinkLoop(env,
                        IF top_rule = NoRule THEN s1
                        ELSE LinkCallees(s1, env[top_rule].callees_,
                                         1, top.callstack, address))

(* A linker that leaves the encoded precedence in every call.              *)
EncodedPrecedence(lr, val) == val

(* iprefix.pf.val = left_recursive.count(subprogram) != 0                  *)
(*                    ? (iprefix.pf.val != 0 ? iprefix.pf.val : 1) : 0     *)
LinkedPrecedence(lr, val) == IF lr THEN (IF val /= 0 THEN val ELSE 1) ELSE 0

RECURSIVE ResolveCalls(_, _, _)
ResolveCalls(st, code, k) ==
    IF k > Len(st.calls) THEN code
    ELSE LET c  == st.calls[k]
             pf == code[c.addr + 1]
             lr == c.program \in st.left_recursive
             pf1 == IF pf.op = "call"
                    THEN [pf EXCEPT !.val = LinkedPrecedence(lr, pf.val)]
                    ELSE pf
             rel == code[c.addr + 2].off + st.addresses[c.program]
                      - (c.addr + 2)
         IN ResolveCalls(st,
                [code EXCEPT ![c.addr + 1] = pf1,
                             ![c.addr + 2] = OffWord(rel)],
                k + 1)

LinkState(env, root) ==
    LET d0 == encode(encode_off(add_callee(env, NewEncoder("program"), root,
                                           root, 0),
                                "call", 0, 0, 0),
                     "accept", altcode_accept_final, 0)
    IN LinkLoop(env,
         [grprogram |-> [d0.prog EXCEPT !.matches_eps = Back(d0.zero_length_)],
          addresses |-> <<>>,
          calls |-> <<[program |-> root, addr |-> 0]>>,
          left_recursive |-> {},
          scans |-> <<>>,
          unprocessed |-> <<[callstack |-> <<[rule |-> root, lm |-> FALSE]>>,
                             program |-> root]>>])

(* A start that lays the programs out and leaves the calls unresolved.     *)
start_unlinked(env, root) == LinkState(env, root).grprogram

(* grammar start(const rule&): the program of the linked grammar.          *)
start(env, root) ==
    LET st == LinkState(env, root)
    IN [st.grprogram EXCEPT !.instructions = ResolveCalls(st, @, 1)]

(* The grammar made from a sequence of rule definitions.                   *)
Grammar(defs) ==
    LET env == RuleEnv(defs)
        root == defs[Len(defs)].name
    IN IF root \in DOMAIN env THEN start(env, root) ELSE EmptyProgram

(***************************************************************************)
(* semantics: the response log, the capture table and accept().            *)
(* A machine state m is a record of the parser's and the semantics' fields *)
(* and of the locals of parser::parse (ir, cr, lr, rc, pc, fc, result,     *)
(* done).  `dispatched` lists the callbacks invoked so far: the callback,  *)
(* the call depth it ran at and, for a capture, the syntax view's bytes.   *)
(***************************************************************************)
ushort_max == 65535

no_capture == -1

lrfailcode == -1

(* Callbacks that call semantics::escape().                                *)
EscapingCallbacks == {"X"}

(* pop_responses_after that pops nothing: the responses of a failed        *)
(* alternative stay in the log.                                            *)
keep_responses_after(responses, n) == responses

pop_responses_after(responses, n) ==
    IF n < Len(responses) THEN SubSeq(responses, 1, n) ELSE responses

(* drop_responses_after(n) returns the dropped tail.                       *)
dropped_responses_after(responses, n) ==
    IF n < Len(responses) THEN SubSeq(responses, n + 1, Len(responses))
    ELSE <<>>

restore_responses_after(responses, n, restore) ==
    pop_responses_after(responses, n) \o restore

(* std::string_view::substr(pos, n); pos > size() throws out_of_range.     *)
substr(sv, pos, n) == SubSeq(sv, pos + 1, Min(pos + n, Len(sv)))

(* A test that skips only the responses strictly deeper than the escape.   *)
PrunedIfDeeper(m, r) == m.prune_depth_ < r.call_depth

(* if (prune_depth_ <= response.call_depth) continue;                      *)
Pruned(m, r) == m.prune_depth_ <= r.call_depth

RECURSIVE AcceptLoop(_, _)
AcceptLoop(m, i) ==
    IF i > Len(m.responses_) THEN m
    ELSE LET r == m.responses_[i] IN
         IF Pruned(m, r) THEN AcceptLoop(m, i + 1)
         ELSE IF r.capture_index /= no_capture
         THEN LET cap == m.captures_[r.capture_index + 1]
                  cb  == m.prog.captures[r.action_index + 1]
              IN IF cap.index > Len(m.match_)
                 THEN [m EXCEPT !.error = "out_of_range",
                                !.prune_depth_ = ushort_max,
                                !.call_depth_ = r.call_depth]
                 ELSE AcceptLoop(
                        [m EXCEPT
                           !.call_depth_ = r.call_depth,
                           !.prune_depth_ = IF cb \in EscapingCallbacks
                                            THEN r.call_depth ELSE ushort_max,
                           !.dispatched = Append(@,
                               [callback |-> cb, depth |-> r.call_depth,
                                capture |-> substr(m.match_, cap.index,
                                                   cap.size)])],
                        i + 1)
         ELSE LET cb == m.prog.actions[r.action_index + 1]
              IN AcceptLoop(
                    [m EXCEPT
                       !.call_depth_ = r.call_depth,
                       !.prune_depth_ = IF cb \in EscapingCallbacks
                                        THEN r.call_depth ELSE ushort_max,
                       !.dispatched = Append(@,
                           [callback |-> cb, depth |-> r.call_depth,
                            capture |-> <<>>])],
                    i + 1)

(* semantics::clear()                                                      *)
semantics_clear(m) ==
    [m EXCEPT !.match_ = <<>>, !.prune_depth_ = ushort_max,
              !.call_depth_ = 0, !.responses_ = <<>>]

(* What follows a call that may throw: nothing, if it threw.               *)
Unthrown(m, F(_)) == IF m.error /= "" THEN m ELSE F(m)

(* semantics::accept(grmr, m)                                              *)
semantics_accept(m) ==
    Unthrown(AcceptLoop([m EXCEPT !.match_ = m.input_], 1), semantics_clear)

(***************************************************************************)
(* parser                                                                  *)
(***************************************************************************)
Registers(m, fc) ==
    [ir |-> m.ir, cr |-> m.cr, lr |-> m.lr, rc |-> m.rc, pc |-> m.pc,
     fc |-> fc]

Subject(m) == [ir |-> m.ir, cr |-> m.cr, lr |-> m.lr]

(* parser::push_source(func)                                               *)
push_source(m, func) ==
    IF m.reading_ THEN [m EXCEPT !.error = "reenterant_read_error"]
    ELSE [m EXCEPT !.sources_ = Append(@, func)]

(* The loop of program::concatenate as each header has it, from the i-th   *)
(* word of src on: the instructions copied so far are in dst, whose side  *)
(* tables are appended once the loop is over.  lug/lug.hpp rebases with    *)
(* assure_in_range(val, valoffset, 65535) and copies the words after the   *)
(* prefix; lug.hpp throws on (immoffset <= imm || imm > 65535) and copies  *)
(* the words from the prefix on.                                           *)
RECURSIVE ConcatenateFrom(_, _, _, _)
ConcatenateFrom(dst, src, i, header) ==
    IF i > Len(src.instructions)
    THEN [program |->
            [dst EXCEPT !.predicates = @ \o src.predicates,
                        !.actions = @ \o src.actions,
                        !.captures = @ \o src.captures,
                        !.matches_eps = @ /\ src.matches_eps],
          error |-> ""]
    ELSE LET instr == src.instructions[i]
             valoffset == CASE instr.op = "predicate" -> Len(dst.predicates)
                            [] instr.op = "action" -> Len(dst.actions)
                            [] instr.op = "end_capture" -> Len(dst.captures)
                            [] OTHER -> 0
             val == instr.val + valoffset
             thrown == IF valoffset = 0 THEN ""
                       ELSE IF header = "lug.hpp"
                       THEN IF valoffset <= val \/ val > ushort_max
                            THEN "program_error" ELSE ""
                       ELSE IF val < valoffset \/ val > ushort_max
                            THEN "resource_limit_error" ELSE ""
             fixed == IF valoffset /= 0 THEN [instr EXCEPT !.val = val]
                      ELSE instr
             j == i + length(instr)
             first == IF header = "lug.hpp" THEN i ELSE i + 1
         IN IF thrown /= "" THEN [program |-> dst, error |-> thrown]
            ELSE ConcatenateFrom(
                   [dst EXCEPT !.instructions =
                      @ \o <<fixed>> \o SubSeq(src.instructions, first, j - 1)],
                   src, j, header)

(* dst.concatenate(src) with the header that defines it; error names the   *)
(* exception that left the call, if one did.                               *)
CallConcatenate(dst, src, header) == ConcatenateFrom(dst, src, 1, header)

(* parser::push_source(func) as the single header lug.hpp has it.          *)
lug_hpp_push_source(m, func) ==
    IF ~m.reading_ THEN [m EXCEPT !.error = "parser_error"]
    ELSE [m EXCEPT !.sources_ = Append(@, func)]

(* The two headers of the repository that define parser::push_source.      *)
Headers == {"lug/lug.hpp", "lug.hpp"}

(* A call p.push_source(func), with what it was called in and what came of *)
(* it written to the log pushes.                                           *)
CallPushSource(m, func, header) ==
    LET m1 == IF header = "lug.hpp" THEN lug_hpp_push_source(m, func)
              ELSE push_source(m, func)
    IN [m1 EXCEPT !.pushes = Append(@,
          [header |-> header,
           reading |-> m.reading_,
           error |-> m1.error,
           appended |-> m1.sources_ = Append(m.sources_, func),
           untouched |-> /\ m1.input_ = m.input_
                         /\ m1.registers_ = m.registers_
                         /\ Registers(m1, 0) = Registers(m, 0)])]

(* A source is the sequence of [text, more, push] its callback will        *)
(* deliver; push says that the callback first calls push_source on the     *)
(* parser that is reading it.  Once the sequence is used up the callback   *)
(* delivers nothing and returns false.                                     *)
NoSource == <<>>

(* A read loop that calls the source pushed first.                         *)
RECURSIVE ReadLoopOldestFirst(_, _)
ReadLoopOldestFirst(m, text) ==
    IF m.sources_ = <<>> \/ text /= <<>> THEN [m |-> m, text |-> text]
    ELSE LET src   == Head(m.sources_)
             chunk == IF src = <<>>
                      THEN [text |-> <<>>, more |-> FALSE, push |-> FALSE]
                      ELSE Head(src)
             rest  == IF src = <<>> THEN <<>> ELSE Tail(src)
         IN ReadLoopOldestFirst(
                   [m EXCEPT
                      !.input_ = @ \o chunk.text,
                      !.sources_ = IF chunk.more
                                   THEN [@ EXCEPT ![1] = rest]
                                   ELSE Tail(@)],
                   chunk.text)

RECURSIVE ReadLoop(_, _)
ReadLoop(m, text) ==
    IF m.sources_ = <<>> \/ text /= <<>> THEN [m |-> m, text |-> text]
    ELSE LET src   == Back(m.sources_)
             chunk == IF src = <<>>
                      THEN [text |-> <<>>, more |-> FALSE, push |-> FALSE]
                      ELSE Head(src)
             rest  == IF src = <<>> THEN <<>> ELSE Tail(src)
             mc == IF chunk.push
                   THEN CallPushSource(m, NoSource, "lug/lug.hpp")
                   ELSE m
         IN IF mc.error /= "" THEN [m |-> mc, text |-> <<>>]
            ELSE ReadLoop(
                   [mc EXCEPT
                      !.input_ = @ \o chunk.text,
                      !.sources_ = IF chunk.more
                                   THEN [@ EXCEPT ![Len(@)] = rest]
                                   ELSE PopBack(@)],
                   chunk.text)

(* parser::read_more(): [m, ok].  The sentinel sets reading_ for the time  *)
(* of the call and clears it on the way out, by return or by exception.    *)
read_more(m) ==
    IF m.reading_ THEN [m |-> [m EXCEPT !.error = "reenterant_read_error"],
                        ok |-> FALSE]
    ELSE LET r == ReadLoop([m EXCEPT !.reading_ = TRUE], <<>>)
         IN [m |-> [r.m EXCEPT !.reading_ = FALSE], ok |-> r.text /= <<>>]

(* parser::available(n, ir): [m, ok].  input_.size() - ir is unsigned: it  *)
(* wraps to a huge value when ir > input_.size(), and n is then below it.  *)
RECURSIVE available(_, _, _)
available(m, n, ir) ==
    IF ir > Len(m.input_) \/ n <= Len(m.input_) - ir
    THEN [m |-> m, ok |-> TRUE]
    ELSE IF ir < Len(m.input_) THEN [m |-> m, ok |-> FALSE]
    ELSE LET r == read_more(m)
         IN IF r.ok THEN available(r.m, n, ir) ELSE [m |-> r.m, ok |-> FALSE]

(* parser::accept(ir, cr, lr, rc, pc)                                      *)
parser_accept(m) ==
    Unthrown(semantics_accept([m EXCEPT !.registers_ = Registers(m, 0)]),
             LAMBDA m1 :
               [m1 EXCEPT
                  !.input_ = Drop(@, m.ir),
                  !.registers_ = [@ EXCEPT !.ir = 0, !.rc = 0],
                  !.max_input_ = [@ EXCEPT !.ir = 0],
                  !.cut_deferred_ = FALSE,
                  !.cut_frame_ = Len(m.stack_frames_),
                  !.ir = 0, !.rc = 0])

(* parser::pop_stack_frame(stack, args...)                                 *)
pop_stack_frame(m, stack) ==
    LET m1 == [m EXCEPT ![stack] = PopBack(@),
                        !.stack_frames_ = PopBack(@),
                        !.cut_frame_ = Min(@, Len(m.stack_frames_) - 1)]
    IN IF /\ stack \in {"capture_stack_", "lrmemo_stack_"}
          /\ m1.cut_deferred_
          /\ m1.capture_stack_ = <<>>
          /\ m1.lrmemo_stack_ = <<>>
       THEN parser_accept(m1)
       ELSE m1

(***************************************************************************)
(* parser::parse(): the failure path and one operator per opcode.  Each    *)
(* handler takes the machine state after decode (pc already advanced) and  *)
(* the decoded instruction I = [op, alt, imm, off, str].                   *)
(***************************************************************************)
(* The stack a frame of each kind lives on.                                *)
StackOf(frame) ==
    CASE frame = "backtrack" -> "backtrack_stack_"
      [] frame = "call"      -> "call_stack_"
      [] frame = "capture"   -> "capture_stack_"
      [] frame = "lrcall"    -> "lrmemo_stack_"

(* The body of one iteration of the failure loop, for the frame on top:    *)
(* what the case assigns, then its pop_stack_frame.  (The ++fc of the call *)
(* and capture cases follows the pop in the source; the pop neither reads  *)
(* nor writes fc.)                                                         *)
FailFrame(m) ==
    LET top == Back(m.stack_frames_) IN
    pop_stack_frame(
      CASE top = "backtrack" ->
             LET f == Back(m.backtrack_stack_)
             IN [m EXCEPT !.ir = f.ir, !.cr = f.cr, !.lr = f.lr,
                          !.rc = f.rc, !.pc = f.pc]
        [] top \in {"call", "capture"} -> [m EXCEPT !.fc = @ + 1]
        [] top = "lrcall" ->
             LET memo == Back(m.lrmemo_stack_)
             IN IF memo.sa.ir /= lrfailcode
                THEN [m EXCEPT
                        !.ir = memo.sa.ir, !.cr = memo.sa.cr,
                        !.lr = memo.sa.lr, !.pc = memo.pcr,
                        !.responses_ = restore_responses_after(
                                           @, memo.rcr, memo.responses),
                        !.rc = Len(restore_responses_after(
                                      m.responses_, memo.rcr,
                                      memo.responses))]
                ELSE [m EXCEPT !.fc = @ + 1],
      StackOf(top))

(* for (++fc; fc > 0; --fc) { ... }, entered after the ++fc.                *)
RECURSIVE FailLoop(_)
FailLoop(m) ==
    IF m.fc <= 0 THEN m
    ELSE IF m.cut_frame_ >= Len(m.stack_frames_) THEN [m EXCEPT !.done = TRUE]
    ELSE Unthrown(FailFrame(m),
                  LAMBDA m1 : FailLoop([m1 EXCEPT !.fc = @ - 1]))

(* The code at the label `failure`.                                        *)
Failure(m) ==
    Unthrown(FailLoop([m EXCEPT !.max_input_ = IF m.ir > m.max_input_.ir
                                               THEN Subject(m) ELSE @,
                                !.fc = @ + 1, !.done = FALSE,
                                !.at_failure = FALSE]),
             LAMBDA m2 :
               [m2 EXCEPT !.responses_ = pop_responses_after(@, m2.rc)])

(* goto failure: the handler is left for the label.                        *)
goto_failure(m) == [m EXCEPT !.at_failure = TRUE]

(* Reading input_ at ir > input_.size() through an iterator is undefined   *)
(* behaviour; ub = 0 stands for a crash, ub > 0 for a rune of ub bytes     *)
(* read from whatever lies there.                                          *)
UBOutcomes == 0..1

UndefinedRead(m, ub) ==
    IF ub = 0 THEN [m EXCEPT !.error = "undefined"]
    ELSE [m EXCEPT !.ir = @ + ub, !.cr = @ + 1]

op_match(m, I) ==
    IF I.str = <<>> THEN m
    ELSE LET a == available(m, Len(I.str), m.ir) IN
         IF ~a.ok THEN goto_failure(a.m)
         ELSE IF m.ir > Len(a.m.input_)
         THEN [a.m EXCEPT !.error = "out_of_range"]
         ELSE IF compare(substr(a.m.input_, m.ir, Len(I.str)), I.str) /= 0
         THEN goto_failure(a.m)
         ELSE [a.m EXCEPT !.ir = @ + Len(I.str), !.cr = @ + I.imm]

op_match_any(m, I, ub) ==
    LET a == available(m, 1, m.ir) IN
    IF ~a.ok THEN goto_failure(a.m)
    ELSE IF m.ir > Len(a.m.input_) THEN UndefinedRead(a.m, ub)
    ELSE [a.m EXCEPT !.ir = @ + size_of_first_rune(Drop(a.m.input_, m.ir)),
                     !.cr = @ + 1]

(* unicode::query(rune).any_of(ctype) (lug/unicode.hpp is not part of the  *)
(* sources at hand): class "alpha" holds the letters, "space" the newline. *)
any_of(rune, class) ==
    \/ class = "alpha" /\ rune[1] \in {"a", "b", "c"}
    \/ class = "space" /\ rune[1] = "\n"

op_match_class(m, I, ub) ==
    LET a == available(m, 1, m.ir) IN
    IF ~a.ok THEN goto_failure(a.m)
    ELSE IF m.ir > Len(a.m.input_) THEN UndefinedRead(a.m, ub)
    ELSE LET sz   == size_of_first_rune(Drop(a.m.input_, m.ir))
             rune == substr(a.m.input_, m.ir, sz)
         IN IF any_of(rune, I.imm) THEN goto_failure(a.m)
            ELSE [a.m EXCEPT !.ir = @ + sz, !.cr = @ + 1]

op_match_range(m, I, ub) ==
    LET first == Take(I.str, I.imm)
        last  == Drop(I.str, I.imm)
        a == available(m, Min(Len(first), Len(last)), m.ir)
    IN IF ~a.ok THEN goto_failure(a.m)
       ELSE IF m.ir > Len(a.m.input_) THEN UndefinedRead(a.m, ub)
       ELSE LET sz == size_of_first_rune(Drop(a.m.input_, m.ir))
                x  == substr(a.m.input_, m.ir, sz)
            IN IF compare(x, first) < 0 \/ compare(x, last) > 0
               THEN goto_failure(a.m)
               ELSE [a.m EXCEPT !.ir = @ + sz, !.cr = @ + 1]

(* choice that saves its frame but leaves the tag off stack_frames_.       *)
op_choice_untagged(m, I) ==
    [m EXCEPT !.backtrack_stack_ = Append(@,
                  [ir |-> m.ir - (I.imm % 256), cr |-> m.cr - (I.imm \div 256),
                   lr |-> m.lr, rc |-> m.rc, pc |-> m.pc + I.off])]

op_choice(m, I) ==
    [m EXCEPT !.stack_frames_ = Append(@, "backtrack"),
              !.backtrack_stack_ = Append(@,
                  [ir |-> m.ir - (I.imm % 256), cr |-> m.cr - (I.imm \div 256),
                   lr |-> m.lr, rc |-> m.rc, pc |-> m.pc + I.off])]

op_jump(m, I) == [m EXCEPT !.pc = @ + I.off]

(* commit with its jump left out: the alternative falls into the next.     *)
op_commit_without_jump(m, I) ==
    IF m.stack_frames_ = <<>> \/ Back(m.stack_frames_) /= "backtrack"
    THEN goto_failure(m)
    ELSE pop_stack_frame(m, "backtrack_stack_")

(* commit that jumps but leaves the Backtrack frame where it is.           *)
op_commit_keeping_frame(m, I) ==
    IF m.stack_frames_ = <<>> \/ Back(m.stack_frames_) /= "backtrack"
    THEN goto_failure(m)
    ELSE op_jump(m, I)

(* commit whose commit_back restores rc with the subject.                  *)
op_commit_restoring_rc(m, I) ==
    IF m.stack_frames_ = <<>> \/ Back(m.stack_frames_) /= "backtrack"
    THEN goto_failure(m)
    ELSE LET f == Back(m.backtrack_stack_)
             m1 == CASE I.alt = altcode_commit_partial ->
                          [m EXCEPT !.backtrack_stack_[Len(m.backtrack_stack_)]
                              = [f EXCEPT !.ir = m.ir, !.cr = m.cr,
                                          !.lr = m.lr, !.rc = m.rc]]
                     [] I.alt = altcode_commit_back ->
                          pop_stack_frame([m EXCEPT !.ir = f.ir, !.cr = f.cr,
                                                    !.lr = f.lr, !.rc = f.rc],
                                          "backtrack_stack_")
                     [] OTHER -> pop_stack_frame(m, "backtrack_stack_")
         IN op_jump(m1, I)

op_commit(m, I) ==
    IF m.stack_frames_ = <<>> \/ Back(m.stack_frames_) /= "backtrack"
    THEN goto_failure(m)
    ELSE LET f == Back(m.backtrack_stack_)
             m1 == CASE I.alt = altcode_commit_partial ->
                          [m EXCEPT !.backtrack_stack_[Len(m.backtrack_stack_)]
                              = [f EXCEPT !.ir = m.ir, !.cr = m.cr,
                                          !.lr = m.lr, !.rc = m.rc]]
                     [] I.alt = altcode_commit_back ->
                          pop_stack_frame([m EXCEPT !.ir = f.ir, !.cr = f.cr,
                                                    !.lr = f.lr],
                                          "backtrack_stack_")
                     [] OTHER -> pop_stack_frame(m, "backtrack_stack_")
         IN op_jump(m1, I)

(* A search that finds no memo.                                            *)
FindNoMemo(stack, k, ir, target) == 0

(* The newest memo with sr.ir = ir and pca = target, searched from the top *)
(* while memo.sr.ir >= ir; 0 when there is none.                           *)
RECURSIVE FindMemo(_, _, _, _)
FindMemo(stack, k, ir, target) ==
    IF k = 0 \/ stack[k].sr.ir < ir THEN 0
    ELSE IF stack[k].sr.ir = ir /\ stack[k].pca = target THEN k
    ELSE FindMemo(stack, k - 1, ir, target)

op_call(m, I) ==
    IF I.imm /= 0
    THEN LET k == FindMemo(m.lrmemo_stack_, Len(m.lrmemo_stack_), m.ir,
                           m.pc + I.off)
         IN IF k /= 0
            THEN LET memo == m.lrmemo_stack_[k] IN
                 IF memo.sa.ir = lrfailcode \/ I.imm < memo.prec
                 THEN goto_failure(m)
                 ELSE [m EXCEPT
                         !.ir = memo.sa.ir, !.cr = memo.sa.cr,
                         !.lr = memo.sa.lr,
                         !.responses_ = restore_responses_after(
                                            @, m.rc, memo.responses),
                         !.rc = Len(restore_responses_after(
                                     m.responses_, m.rc, memo.responses))]
            ELSE [m EXCEPT
                    !.stack_frames_ = Append(@, "lrcall"),
                    !.lrmemo_stack_ = Append(@,
                        [sr |-> Subject(m),
                         sa |-> [ir |-> lrfailcode, cr |-> 0, lr |-> 0],
                         rcr |-> m.rc, pcr |-> m.pc, pca |-> m.pc + I.off,
                         responses |-> <<>>, prec |-> I.imm]),
                    !.pc = @ + I.off]
    ELSE [m EXCEPT !.stack_frames_ = Append(@, "call"),
                   !.call_stack_ = Append(@, m.pc),
                   !.pc = @ + I.off]

(* ret that takes the first answer of a left-recursive call for the last:  *)
(* the seed is stored, and no longer answer ever replaces it.              *)
op_ret_without_growth(m, I) ==
    IF m.stack_frames_ = <<>> THEN goto_failure(m)
    ELSE CASE Back(m.stack_frames_) = "call" ->
                pop_stack_frame([m EXCEPT !.pc = Back(m.call_stack_)],
                                "call_stack_")
           [] Back(m.stack_frames_) = "lrcall" ->
                LET memo == Back(m.lrmemo_stack_) IN
                IF memo.sa.ir = lrfailcode
                THEN [m EXCEPT
                        !.lrmemo_stack_[Len(m.lrmemo_stack_)] =
                            [memo EXCEPT
                               !.sa = Subject(m),
                               !.responses = dropped_responses_after(
                                                 m.responses_, memo.rcr)],
                        !.responses_ = pop_responses_after(@, memo.rcr),
                        !.ir = memo.sr.ir, !.cr = memo.sr.cr,
                        !.lr = memo.sr.lr, !.rc = memo.rcr, !.pc = memo.pca]
                ELSE pop_stack_frame(
                       [m EXCEPT
                          !.ir = memo.sa.ir, !.cr = memo.sa.cr,
                          !.lr = memo.sa.lr, !.pc = memo.pcr,
                          !.responses_ = restore_responses_after(
                                             @, memo.rcr, memo.responses),
                          !.rc = Len(restore_responses_after(
                                      m.responses_, memo.rcr,
                                      memo.responses))],
                       "lrmemo_stack_")
           [] OTHER -> goto_failure(m)

(* A test that also takes an answer no longer than the best one.           *)
LongerOrEqual(m, memo) == memo.sa.ir = lrfailcode \/ m.ir >= memo.sa.ir

(* if (memo.sa.ir == lrfailcode || ir > memo.sa.ir)                        *)
Longer(m, memo) == memo.sa.ir = lrfailcode \/ m.ir > memo.sa.ir

op_ret(m, I) ==
    IF m.stack_frames_ = <<>> THEN goto_failure(m)
    ELSE CASE Back(m.stack_frames_) = "call" ->
                pop_stack_frame([m EXCEPT !.pc = Back(m.call_stack_)],
                                "call_stack_")
           [] Back(m.stack_frames_) = "lrcall" ->
                LET memo == Back(m.lrmemo_stack_) IN
                IF Longer(m, memo)
                THEN [m EXCEPT
                        !.lrmemo_stack_[Len(m.lrmemo_stack_)] =
                            [memo EXCEPT
                               !.sa = Subject(m),
                               !.responses = dropped_responses_after(
                                                 m.responses_, memo.rcr)],
                        !.responses_ = pop_responses_after(@, memo.rcr),
                        !.ir = memo.sr.ir, !.cr = memo.sr.cr,
                        !.lr = memo.sr.lr, !.rc = memo.rcr, !.pc = memo.pca]
                ELSE pop_stack_frame(
                       [m EXCEPT
                          !.ir = memo.sa.ir, !.cr = memo.sa.cr,
                          !.lr = memo.sa.lr, !.pc = memo.pcr,
                          !.responses_ = restore_responses_after(
                                             @, memo.rcr, memo.responses),
                          !.rc = Len(restore_responses_after(
                                      m.responses_, memo.rcr,
                                      memo.responses))],
                       "lrmemo_stack_")
           [] OTHER -> goto_failure(m)

op_fail(m, I) == goto_failure([m EXCEPT !.fc = I.imm])

op_accept(m, I) ==
    LET deferred == m.capture_stack_ /= <<>> \/ m.lrmemo_stack_ /= <<>>
        m1 == [m EXCEPT !.cut_deferred_ = deferred]
    IN IF deferred THEN m1
       ELSE Unthrown(parser_accept(m1),
                     LAMBDA m2 :
                       IF I.alt = altcode_accept_final
                       THEN [m2 EXCEPT !.result = TRUE, !.done = TRUE]
                       ELSE [m2 EXCEPT !.result = FALSE, !.done = FALSE])

op_newline(m, I) == [m EXCEPT !.cr = 1, !.lr = @ + 1]

(* The semantic predicates of the model: constant ones, and one that asks  *)
(* the parser for its registers.                                           *)
(* The entry of parser::parse(), up to the loop.                           *)
parse_begin(m) ==
    IF m.parsing_ THEN [m EXCEPT !.error = "reenterant_parse_error"]
    ELSE IF m.prog.instructions = <<>>
    THEN [m EXCEPT !.error = "bad_grammar", !.status = "threw",
                   !.calls = @ + 1]
    ELSE semantics_clear(
           [m EXCEPT !.parsing_ = TRUE, !.status = "parsing",
                     !.calls = @ + 1,
                     !.ir = m.registers_.ir, !.cr = m.registers_.cr,
                     !.lr = m.registers_.lr,
                     !.rc = 0, !.pc = 0, !.fc = 0, !.result = FALSE,
                     !.done = FALSE, !.cut_deferred_ = FALSE,
                     !.cut_frame_ = 0])

(* prog.predicates[imm] called on the parser: what it returns, and what it *)
(* does to the parser it is handed.  "rc=0" writes registers().rc; "parse" *)
(* calls parse() on the parser and lets its exception pass, "try_parse"    *)
(* catches it and returns whether there was one; "push_b" calls            *)
(* push_source with a source that delivers "b" once.  "ir<=4" is the test's *)
(* p.subject_index() <= 4, the subject index being registers().ir.         *)
SourceOfB == <<[text |-> <<"b">>, more |-> FALSE, push |-> FALSE]>>

PredicateHolds(p, m) ==
    CASE p = "true" -> TRUE
      [] p = "false" -> FALSE
      [] p = "ir<=1" -> m.registers_.ir <= 1
      [] p = "ir<=4" -> m.registers_.ir <= 4
      [] p = "try_parse" -> parse_begin(m).error = "reenterant_parse_error"
      [] p \in {"rc=0", "parse", "push_b"} -> TRUE

PredicateRuns(p, m) ==
    CASE p = "rc=0" -> [m EXCEPT !.registers_ = [@ EXCEPT !.rc = 0]]
      [] p = "parse" -> parse_begin(m)
      [] p = "try_parse" -> [parse_begin(m) EXCEPT !.error = ""]
      [] p = "push_b" -> CallPushSource(m, SourceOfB, "lug/lug.hpp")
      [] OTHER -> m

(* predicate that goes on whatever the predicate returned.                 *)
op_predicate_accepting(m, I) ==
    [m EXCEPT !.registers_ = Registers(m, 0),
              !.max_input_ = IF m.ir > m.max_input_.ir THEN Subject(m) ELSE @]

op_predicate(m, I) ==
    LET m1 == [m EXCEPT !.registers_ = Registers(m, 0),
                        !.max_input_ = IF m.ir > m.max_input_.ir
                                       THEN Subject(m) ELSE @]
        accepted == PredicateHolds(m.prog.predicates[I.imm + 1], m1)
        mp == PredicateRuns(m.prog.predicates[I.imm + 1], m1)
        r  == mp.registers_
        m2 == [mp EXCEPT !.ir = r.ir, !.cr = r.cr, !.lr = r.lr, !.rc = r.rc,
                         !.pc = r.pc, !.fc = r.fc,
                         !.responses_ = pop_responses_after(@, r.rc)]
    IN IF mp.error /= "" THEN mp
       ELSE IF ~accepted THEN goto_failure(m2) ELSE m2

CallDepth(m) == Len(m.call_stack_) + Len(m.lrmemo_stack_)

(* semantics::push_response(depth, action_index, capture_index)            *)
(* The depth and the index are stored through static_cast<unsigned short>.  *)
push_response(m, depth, action_index, capture_index) ==
    [m EXCEPT !.responses_ = Append(@,
                  [call_depth |-> depth % (ushort_max + 1),
                   action_index |-> action_index % (ushort_max + 1),
                   capture_index |-> capture_index]),
              !.rc = Len(m.responses_) + 1]

(* action that logs its response but leaves rc as it was.                  *)
op_action_keeping_rc(m, I) ==
    [push_response(m, CallDepth(m), I.imm, no_capture) EXCEPT !.rc = m.rc]

(* action that also takes its callback out of the grammar's action table.  *)
op_action_consuming(m, I) ==
    [push_response(m, CallDepth(m), I.imm, no_capture)
        EXCEPT !.prog.actions[I.imm + 1] = "A0"]

op_action(m, I) == push_response(m, CallDepth(m), I.imm, no_capture)

op_begin_capture(m, I) ==
    [m EXCEPT !.stack_frames_ = Append(@, "capture"),
              !.capture_stack_ = Append(@, Subject(m))]

op_end_capture(m, I) ==
    IF m.stack_frames_ = <<>> \/ Back(m.stack_frames_) /= "capture"
    THEN goto_failure(m)
    ELSE LET s0 == Back(m.capture_stack_) IN
         Unthrown(pop_stack_frame(m, "capture_stack_"),
                  LAMBDA m1 :
                    IF s0.ir > m.ir THEN goto_failure(m1)
                    ELSE push_response(
                           [m1 EXCEPT !.captures_ = Append(@,
                              [index |-> s0.ir, size |-> m.ir - s0.ir,
                               start |-> [column |-> s0.cr, line |-> s0.lr],
                               end |-> [column |-> m.cr, line |-> m.lr]])],
                           CallDepth(m1), I.imm, Len(m1.captures_)))

(***************************************************************************)
(* One pass of the loop of parser::parse(): decode, then dispatch.         *)
(***************************************************************************)
(* The exit of parse() with the sentinel's destructor left out.            *)
FinishWithoutSentinel(m) ==
    IF m.error /= "" THEN [m EXCEPT !.status = "threw"]
    ELSE IF m.done THEN [m EXCEPT !.status = "returned"]
    ELSE m

Finish(m) ==
    IF m.error /= "" THEN [m EXCEPT !.status = "threw", !.parsing_ = FALSE]
    ELSE IF m.done THEN [m EXCEPT !.status = "returned", !.parsing_ = FALSE]
    ELSE m

(* A handler ends by break, by goto failure or by throwing.                *)
Resume(m) ==
    IF m.error /= "" THEN m ELSE IF m.at_failure THEN Failure(m) ELSE m

(* switch (op): the handler of the decoded instruction.                    *)
Dispatch(m1, I, ub) ==
    CASE I.op = "match"         -> op_match(m1, I)
      [] I.op = "match_any"     -> op_match_any(m1, I, ub)
      [] I.op = "match_class"   -> op_match_class(m1, I, ub)
      [] I.op = "match_range"   -> op_match_range(m1, I, ub)
      [] I.op = "choice"        -> op_choice(m1, I)
      [] I.op = "commit"        -> op_commit(m1, I)
      [] I.op = "jump"          -> op_jump(m1, I)
      [] I.op = "call"          -> op_call(m1, I)
      [] I.op = "ret"           -> op_ret(m1, I)
      [] I.op = "fail"          -> op_fail(m1, I)
      [] I.op = "accept"        -> op_accept(m1, I)
      [] I.op = "newline"       -> op_newline(m1, I)
      [] I.op = "predicate"     -> op_predicate(m1, I)
      [] I.op = "action"        -> op_action(m1, I)
      [] I.op = "begin_capture" -> op_begin_capture(m1, I)
      [] I.op = "end_capture"   -> op_end_capture(m1, I)

Exec(m, ub) ==
    LET I  == decode(m.prog.instructions, m.pc)
        m1 == [m EXCEPT !.pc = I.pc]
    IN Finish(Resume(Dispatch(m1, I, ub)))

(* parser{grmr, sema}.enqueue(first, last) and push_source(...)            *)
NewParser(program, input, sources) ==
    [prog |-> program, input_ |-> input,
     ir |-> 0, cr |-> 1, lr |-> 1, rc |-> 0, pc |-> 0, fc |-> 0,
     registers_ |-> [ir |-> 0, cr |-> 1, lr |-> 1, rc |-> 0, pc |-> 0,
                     fc |-> 0],
     max_input_ |-> [ir |-> 0, cr |-> 1, lr |-> 1],
     parsing_ |-> FALSE, reading_ |-> FALSE, cut_deferred_ |-> FALSE,
     cut_frame_ |-> 0, sources_ |-> sources,
     stack_frames_ |-> <<>>, backtrack_stack_ |-> <<>>, call_stack_ |-> <<>>,
     capture_stack_ |-> <<>>, lrmemo_stack_ |-> <<>>,
     responses_ |-> <<>>, captures_ |-> <<>>, prune_depth_ |-> ushort_max,
     call_depth_ |-> 0, match_ |-> <<>>, dispatched |-> <<>>,
     result |-> FALSE, done |-> FALSE, error |-> "", status |-> "constructed",
     calls |-> 0, pushes |-> <<>>, at_failure |-> FALSE]

(***************************************************************************)
(* A whole call of lug::parse(input, grammar): the loop run to its end,    *)
(* or cut off after Fuel instructions (status is then still "parsing").    *)
(***************************************************************************)
Fuel == 120

RECURSIVE RunFrom(_, _)
RunFrom(m, fuel) ==
    IF m.status /= "parsing" \/ fuel = 0 THEN m
    ELSE IF fuel = 1 THEN Exec(m, 0)
    ELSE RunFrom(RunFrom(m, fuel \div 2), fuel - fuel \div 2)

Run(program, input) ==
    RunFrom(parse_begin(NewParser(program, input, <<>>)), Fuel)

(***************************************************************************)
(* The state machine.  root is the expression the grammar was made from    *)
(* (start(root), over the rules of Prelude) and text the whole input given *)
(* to the parser; neither changes.  The other variables are the fields of  *)
(* the parser and of its semantics and the locals of parser::parse().      *)
(***************************************************************************)
VARIABLES
    root, text,
    prog,
    input_,
    ir,
    cr,
    lr,
    rc,
    pc,
    fc,
    registers_,
    max_input_,
    parsing_,
    reading_,
    cut_deferred_,
    cut_frame_,
    sources_,
    stack_frames_,
    backtrack_stack_,
    call_stack_,
    capture_stack_,
    lrmemo_stack_,
    responses_,
    captures_,
    prune_depth_,
    call_depth_,
    match_,
    dispatched,
    result,
    done,
    error,
    status,
    calls,
    pushes,
    second

(* second is a second parser over the same grammar object, a record of    *)
(* its own fields (input, stacks, semantics): absent unless a              *)
(* specification makes one.                                                *)
NoParser == [status |-> "absent"]

vars ==
    <<root, text, prog, input_, ir, cr, lr, rc, pc, fc, registers_,
      max_input_, parsing_, reading_, cut_deferred_, cut_frame_,
      sources_, stack_frames_, backtrack_stack_, call_stack_,
      capture_stack_, lrmemo_stack_, responses_, captures_,
      prune_depth_, call_depth_, match_, dispatched, result, done,
      error, status, calls, pushes, second>>

M ==
    [prog |-> prog,
     input_ |-> input_,
     ir |-> ir,
     cr |-> cr,
     lr |-> lr,
     rc |-> rc,
     pc |-> pc,
     fc |-> fc,
     registers_ |-> registers_,
     max_input_ |-> max_input_,
     parsing_ |-> parsing_,
     reading_ |-> reading_,
     cut_deferred_ |-> cut_deferred_,
     cut_frame_ |-> cut_frame_,
     sources_ |-> sources_,
     stack_frames_ |-> stack_frames_,
     backtrack_stack_ |-> backtrack_stack_,
     call_stack_ |-> call_stack_,
     capture_stack_ |-> capture_stack_,
     lrmemo_stack_ |-> lrmemo_stack_,
     responses_ |-> responses_,
     captures_ |-> captures_,
     prune_depth_ |-> prune_depth_,
     call_depth_ |-> call_depth_,
     match_ |-> match_,
     dispatched |-> dispatched,
     result |-> result,
     done |-> done,
     error |-> error,
     status |-> status,
     calls |-> calls,
     pushes |-> pushes,
     at_failure |-> FALSE]

Load(n) ==
    /\ prog' = n.prog
    /\ input_' = n.input_
    /\ ir' = n.ir
    /\ cr' = n.cr
    /\ lr' = n.lr
    /\ rc' = n.rc
    /\ pc' = n.pc
    /\ fc' = n.fc
    /\ registers_' = n.registers_
    /\ max_input_' = n.max_input_
    /\ parsing_' = n.parsing_
    /\ reading_' = n.reading_
    /\ cut_deferred_' = n.cut_deferred_
    /\ cut_frame_' = n.cut_frame_
    /\ sources_' = n.sources_
    /\ stack_frames_' = n.stack_frames_
    /\ backtrack_stack_' = n.backtrack_stack_
    /\ call_stack_' = n.call_stack_
    /\ capture_stack_' = n.capture_stack_
    /\ lrmemo_stack_' = n.lrmemo_stack_
    /\ responses_' = n.responses_
    /\ captures_' = n.captures_
    /\ prune_depth_' = n.prune_depth_
    /\ call_depth_' = n.call_depth_
    /\ match_' = n.match_
    /\ dispatched' = n.dispatched
    /\ result' = n.result
    /\ done' = n.done
    /\ error' = n.error
    /\ status' = n.status
    /\ calls' = n.calls
    /\ pushes' = n.pushes

InitFrom(n) ==
    /\ prog = n.prog
    /\ input_ = n.input_
    /\ ir = n.ir
    /\ cr = n.cr
    /\ lr = n.lr
    /\ rc = n.rc
    /\ pc = n.pc
    /\ fc = n.fc
    /\ registers_ = n.registers_
    /\ max_input_ = n.max_input_
    /\ parsing_ = n.parsing_
    /\ reading_ = n.reading_
    /\ cut_deferred_ = n.cut_deferred_
    /\ cut_frame_ = n.cut_frame_
    /\ sources_ = n.sources_
    /\ stack_frames_ = n.stack_frames_
    /\ backtrack_stack_ = n.backtrack_stack_
    /\ call_stack_ = n.call_stack_
    /\ capture_stack_ = n.capture_stack_
    /\ lrmemo_stack_ = n.lrmemo_stack_
    /\ responses_ = n.responses_
    /\ captures_ = n.captures_
    /\ prune_depth_ = n.prune_depth_
    /\ call_depth_ = n.call_depth_
    /\ match_ = n.match_
    /\ dispatched = n.dispatched
    /\ result = n.result
    /\ done = n.done
    /\ error = n.error
    /\ status = n.status
    /\ calls = n.calls
    /\ pushes = n.pushes

(* A grammar of its own, start(In) with In = "a" In | "b" <A3, which other *)
(* grammars call as an expression.                                         *)
SubDefs ==
    <<[name |-> "In",
       body |-> Alt(Then(chr("a"), Ref("In", 0)), Act(chr("b"), "A3"))]>>

SubProgram == Grammar(SubDefs)

(***************************************************************************)
(* The rules every grammar of the model may refer to, in the order they    *)
(* are made.  Tok is small enough to be inlined; the others are called:    *)
(* Esc, whose first action escapes, because it has a callee, the rest      *)
(* because they are left-recursive (Mut1 and Mut2 through each other).     *)
(* EscTok, CutTok, CapTok and Eight (8 instruction words) are inlined like *)
(* Tok; Nine (9 words) and Two (two actions) are not.                      *)
(* Grow extends its answer with an "a" and then needs a "b", so a round of  *)
(* growth can fail as a whole; CutGrow cuts in each round; Prec calls      *)
(* itself at two precedences.                                              *)
(* Right calls Left after an "a" and Left calls Right first, so neither is *)
(* left-recursive.  Sub is a grammar, not a rule.                          *)
(***************************************************************************)
Prelude ==
    <<[name |-> "Tok",  body |-> Act(chr("b"), "A3")],
      [name |-> "Expr",
       body |-> Alt(Then(Then(Ref("Expr", 0), chr("+")), chr("a")),
                    chr("a"))],
      [name |-> "ExprA",
       body |-> Alt(Act(Then(Then(Ref("ExprA", 0), chr("+")), chr("a")),
                        "A2"),
                    Act(chr("a"), "A1"))],
      [name |-> "Base1",
       body |-> Alt(chr("a"), Then(Ref("Base1", 0), chr("+")))],
      [name |-> "Null",
       body |-> Alt(Then(Ref("Null", 0), chr("a")), eps)],
      [name |-> "NoBase", body |-> Then(Ref("NoBase", 0), chr("a"))],
      [name |-> "Both",
       body |-> Alt(Then(Then(Ref("Both", 0), chr("+")), Ref("Both", 0)),
                    chr("a"))],
      [name |-> "Esc",
       body |-> Then(Act(chr("a"), "X"), Act(Ref("ExprA", 0), "A3"))],
      [name |-> "Mut1",
       body |-> Alt(Then(Ref("Mut2", 0), chr("+")), chr("a"))],
      [name |-> "Mut2", body |-> Then(Ref("Mut1", 0), chr("a"))],
      [name |-> "Right",
       body |-> Alt(Then(chr("a"), Ref("Left", 0)), chr("b"))],
      [name |-> "Left", body |-> Then(Ref("Right", 0), chr("+"))],
      [name |-> "EscTok", body |-> Act(chr("a"), "X")],
      [name |-> "CutTok", body |-> Then(chr("a"), cut)],
      [name |-> "CapTok", body |-> Cap(any, "C1")],
      [name |-> "Eight", body |-> Alt(chr("a"), chr("b"))],
      [name |-> "Nine", body |-> Alt(chr("a"), Then(chr("b"), eps))],
      [name |-> "Two",
       body |-> Then(Act(chr("a"), "A1"), Act(chr("b"), "A3"))],
      [name |-> "Grow",
       body |-> Then(Alt(Then(Ref("Grow", 0), chr("a")),
                         Act(chr("a"), "A1")),
                     chr("b"))],
      [name |-> "CutGrow",
       body |-> Alt(Then(Then(Ref("CutGrow", 0), chr("+")),
                         Then(Act(chr("a"), "A1"), cut)),
                    chr("a"))],
      [name |-> "Deep",
       body |-> Then(Opt(Act(chr("b"), "A1")),
                     Then(chr("a"), Then(cut, Ref("Deep", 0))))],
      [name |-> "Prec",
       body |-> Alt(Then(Ref("Prec", 1), chr("+")),
                    Alt(Then(Ref("Prec", 3), chr("a")), chr("a")))],
      [name |-> "Sub", program |-> SubProgram]>>

(* start(root): the rule made from root is the start rule.                 *)
GrammarOf(e) == Grammar(Prelude \o <<[name |-> "S", body |-> e]>>)

(***************************************************************************)
(* Bounds, inputs and the expressions the grammars are made from.          *)
(***************************************************************************)
MaxLen == 3

MaxChain == 5

Strings(A, n) == UNION {[1..k -> A] : k \in 0..n}

Chain(k) == [i \in 1..k |-> IF i % 2 = 1 THEN "a" ELSE "+"]

(* "", "a", "aa", ... and the same with a "b" for the last byte.            *)
MaxRun == 5

Repeat(k) == [i \in 1..k |-> "a"]

Inputs ==
    Strings({"a", "b"}, MaxLen)
    \cup {Chain(k) : k \in 0..MaxChain}
    \cup {Repeat(k) : k \in 0..MaxRun}
    \cup {Repeat(k) \o <<"b">> : k \in 0..(MaxRun - 2)}

BaseExprs ==
    {chr("a"), Lit(<<"a", "b">>), any, eps, cut,
     Then(chr("a"), cut), Star(chr("a")), Alt(Lit(<<"a", "b">>), chr("a")),
     Not(chr("a")), And(chr("a")), Act(chr("a"), "A1"), Cap(any, "C1"),
     Then(Act(chr("a"), "A1"), Act(any, "A2")),
     Ref("Expr", 0), Ref("ExprA", 0), Ref("Tok", 0)}

LeftRecursive == {"Expr", "ExprA", "Base1", "Null", "NoBase", "Both"}

CoreRoots ==
    BaseExprs
    \cup {Then(e, eoi) : e \in BaseExprs}
    \cup {Then(Ref(r, 0), eoi) : r \in LeftRecursive}
    \cup {Ref(r, 0) : r \in LeftRecursive}
    \cup {Then(Plus(chr("a")), eoi),
          Then(Alt(chr("a"), Lit(<<"a", "b">>)), eoi),
          Then(Range("a", "b"), Cls("alpha")),
          Then(Cls("space"), any),
          Then(chr("a"), Then(ilr, Then(Jump(0), chr("b")))),
          Then(Plus(Then(chr("a"), Pred("ir<=1"))), eoi),
          Then(Plus(Then(chr("a"), Pred("ir<=4"))), eoi),
          Then(Alt(Then(chr("a"), Pred("false")),
                   Then(Pred("true"), Lit(<<"a", "b">>))), eoi),
          Alt(Then(chr("a"), Pred("false")), Then(Pred("true"), any)),
          Then(Opt(chr("a")), Act(chr("b"), "X")),
          Then(Act(chr("a"), "A1"), Then(Pred("rc=0"), Act(any, "A2"))),
          Star(eps),
          Then(Star(Alt(chr("a"), eps)), chr("b")),
          Then(Star(Then(chr("a"), cut)), chr("b")),
          Cap(Then(chr("a"), Then(cut, chr("b"))), "C1"),
          Cap(Then(Act(chr("a"), "A1"), Then(cut, chr("b"))), "C1"),
          Then(Cap(Then(Act(chr("a"), "A1"), cut), "C1"), chr("b")),
          Then(Cap(Alt(Then(Act(chr("a"), "A1"), Then(cut, chr("b"))),
                       chr("a")), "C1"), chr("a")),
          Then(cut, Cap(Plus(any), "C1")),
          Then(Alt(Then(chr("a"), Then(chr("b"), Then(chr("b"), chr("+")))),
                   chr("a")),
               Then(cut, Then(chr("b"), chr("a")))),
          Then(chr("a"), Then(And(Then(chr("a"), cut)), any)),
          Then(Act(Ref("ExprA", 0), "X"), Act(Ref("Tok", 0), "A2")),
          Then(Act(Ref("Esc", 0), "A2"), Act(Ref("ExprA", 0), "A1"))}

ChoiceRoots ==
    {Alt(e1, e2) : e1 \in BaseExprs,
                   e2 \in {chr("b"), eps, Act(any, "A2")}}

(* An ordered choice and what follows it.                                  *)
CommitRoots ==
    {Then(c, f) :
       c \in {Alt(chr("a"), Lit(<<"a", "b">>)),
              Alt(Lit(<<"a", "b">>), chr("a")),
              Alt(chr("a"), eps),
              Alt(Star(chr("a")), chr("b")),
              Alt(Then(chr("a"), cut), Lit(<<"a", "b">>)),
              Alt(Act(chr("a"), "A1"), Act(any, "A2"))},
       f \in {eoi, chr("b")}}

Prefixes == {eps, Then(chr("a"), ilr)}

LookRoots ==
    UNION {{Then(p, Not(Not(e))), Then(p, And(e)), Then(p, e), p}
             : p \in Prefixes, e \in BaseExprs}

EpsRoots == {Then(e, eps) : e \in BaseExprs}

(* A few grammars that between them hold every opcode.                    *)
OpcodeRoots ==
    {Then(Range("a", "b"), Cls("alpha")),
     Then(chr("a"), Then(ilr, Then(Jump(0), chr("b")))),
     Alt(Then(chr("a"), Pred("false")), Then(Pred("true"), any)),
     Not(chr("a")),
     Cap(Act(any, "A1"), "C1"),
     Then(Ref("Expr", 0), eoi)}

(* How the text reaches the parser: enqueued as a whole, or, for one       *)
(* grammar, its first byte enqueued and the rest pulled from a source in   *)
(* chunks of two bytes.                                                    *)
RECURSIVE Chunks(_)
Chunks(s) ==
    IF s = <<>> THEN <<>>
    ELSE <<[text |-> Take(s, 2), more |-> TRUE, push |-> FALSE]>>
           \o Chunks(Drop(s, 2))

SourceRoots == {Then(Ref("Expr", 0), eoi)}

(* A source whose callback delivers the first byte of s and, called        *)
(* again, calls push_source before it delivers the rest.                   *)
PushingChunks(s) ==
    <<[text |-> Take(s, 1), more |-> TRUE, push |-> FALSE],
      [text |-> Drop(s, 1), more |-> FALSE, push |-> TRUE]>>

PushingRoots == {Then(Star(any), eoi)}

(* Grammars with matches of one and of two bytes, whose text comes partly  *)
(* or wholly from a source.                                                *)
StreamRoots ==
    {Then(Lit(<<"a", "b">>), eoi),
     Then(chr("a"), Then(Lit(<<"a", "b">>), eoi)),
     Then(Star(Lit(<<"a", "b">>)), eoi),
     Then(any, Then(Range("a", "b"), Cls("alpha")))}

Feeds(e, s) ==
    {[input |-> s, sources |-> <<>>]}
    \cup (IF e \in StreamRoots /\ Len(s) > 1
          THEN {[input |-> Take(s, 1), sources |-> <<Chunks(Drop(s, 1))>>],
                [input |-> <<>>, sources |-> <<Chunks(s)>>]}
          ELSE {})
    \cup (IF e \in SourceRoots /\ Len(s) > 1
          THEN {[input |-> Take(s, 1), sources |-> <<Chunks(Drop(s, 1))>>]}
          ELSE {})
    \cup (IF e \in PushingRoots /\ Len(s) > 0
          THEN {[input |-> <<>>, sources |-> <<PushingChunks(s)>>]}
          ELSE {})

(* Grammars whose predicates call parse() and push_source, and grammars    *)
(* whose parse ends early, by a failure after a cut or by an exception.    *)
CallRoots ==
    {Then(chr("a"), Then(Pred("try_parse"), chr("b"))),
     Then(chr("a"), Then(Pred("parse"), chr("b"))),
     Then(chr("a"), Then(Pred("push_b"), Then(chr("b"), eoi))),
     Then(Star(Then(chr("a"), cut)), chr("b")),
     Then(chr("a"), Then(chr("a"), Cap(Then(chr("b"), cut), "C1"))),
     Then(Act(chr("a"), "A1"), Opt(chr("b"))),
     Then(Star(any), eoi)}

(* A grammar is made from an expression of R and a parser for it is given  *)
(* a text of Inputs.                                                       *)
InitWith(R) ==
    \E e \in R : \E grammar \in {GrammarOf(e)} :
    \E s \in Inputs : \E f \in Feeds(e, s) :
        /\ root = e
        /\ text = s
        /\ InitFrom(NewParser(grammar, f.input, f.sources))
        /\ second = NoParser

(* Two parsers made over one grammar, each given the whole input.          *)
InitPair(R) ==
    \E e \in R : \E grammar \in {GrammarOf(e)} : \E s \in Inputs :
        /\ root = e
        /\ text = s
        /\ InitFrom(NewParser(grammar, s, <<>>))
        /\ second = NewParser(grammar, s, <<>>)

Init == InitWith(CoreRoots)

InitChoice == InitWith(ChoiceRoots \cup CommitRoots \cup OpcodeRoots)

InitLook == InitWith(LookRoots \cup OpcodeRoots)

(* +e > eoi for each base expression e (operator+ is e > *e).              *)
PlusRoots == {Then(Plus(e), eoi) : e \in BaseExprs}

InitPlus == InitWith(PlusRoots \cup OpcodeRoots)

(* Grammars whose rules call one another in the ways the linker tells      *)
(* apart: left-recursive and not, with and without a precedence, after     *)
(* expressions that may match nothing, twice, and into another grammar.    *)
LinkRoots ==
    {Ref("Expr", 0), Ref("Expr", 2), Ref("Mut1", 0), Ref("Tok", 0),
     Ref("Right", 0), Ref("Left", 2),
     Then(Ref("Tok", 1), Ref("Expr", 0)),
     Then(Ref("Esc", 0), Ref("ExprA", 0)),
     Then(chr("a"), Gram("Sub")),
     Then(Gram("Sub"), Ref("Esc", 3)),
     Then(Opt(chr("b")), Ref("Expr", 0)),
     Then(Alt(eps, chr("b")), Ref("Both", 0)),
     Then(Star(chr("b")), Ref("Expr", 0)),
     Then(Not(chr("b")), Ref("Expr", 2)),
     Then(Ref("Null", 0), Ref("Expr", 0)),
     Then(Act(eps, "A1"), Then(Ref("ExprA", 0), Ref("Tok", 0)))}

InitLink == InitWith(LinkRoots \cup OpcodeRoots)

(* Grammars that refer to a rule without callees, once in each of a few    *)
(* contexts.                                                               *)
SmallRules == {"Tok", "EscTok", "CutTok", "CapTok", "Eight", "Nine", "Two"}

InlineRoots ==
    UNION {{Then(Ref(r, 0), Act(any, "A2")),
            Then(Act(chr("a"), "A1"), Then(Ref(r, 0), eoi)),
            Then(Star(Ref(r, 0)), Act(eoi, "A2")),
            Alt(Then(Ref(r, 0), chr("b")), Act(Ref(r, 0), "A2"))}
             : r \in SmallRules}

InitInline == InitWith(InlineRoots \cup OpcodeRoots)

(* Grammars with actions, captures, a cut and left recursion, run by two   *)
(* parsers.                                                                *)
SharedRoots ==
    {Then(Act(Ref("ExprA", 0), "X"), Act(Ref("Tok", 0), "A2")),
     Then(Act(chr("a"), "A1"), Then(cut, Cap(Plus(any), "C1"))),
     Then(Plus(Act(chr("a"), "A1")), eoi)}

InitShared == InitPair(SharedRoots \cup OpcodeRoots)

InitStream == InitWith(StreamRoots \cup OpcodeRoots)

(* Calls of left-recursive rules, alone and before the end of input, at    *)
(* several precedences, under a predicate, and a cut inside a capture.     *)
GrowRules == LeftRecursive \cup {"Grow", "CutGrow", "Prec", "Mut1"}

GrowRoots ==
    {Ref(r, 0) : r \in GrowRules}
    \cup {Then(Ref(r, 0), eoi) : r \in GrowRules}
    \cup {Ref("Prec", 2), Ref("Prec", 3),
          Then(Not(Ref("Expr", 0)), any),
          Then(And(Ref("ExprA", 0)), any),
          Cap(Ref("ExprA", 0), "C1"),
          Cap(Then(chr("a"), Then(cut, chr("b"))), "C1")}

InitGrow == InitWith(GrowRoots \cup OpcodeRoots)

(* The three commits as the operators emit them, and each of them emitted  *)
(* alone where the top frame is a Call or Capture frame or past a cut.     *)
Commits == {0, altcode_commit_back, altcode_commit_partial}

FrameRoots ==
    {RawCommit(alt, 0) : alt \in Commits}
    \cup {Then(chr("a"), RawCommit(alt, 0)) : alt \in Commits}
    \cup {Cap(Then(any, RawCommit(alt, 0)), "C1") : alt \in Commits}
    \cup {Alt(Then(cut, RawCommit(alt, 0)), any) : alt \in Commits}
    \cup {Then(Ref("ExprA", 0), RawCommit(alt, 0)) : alt \in Commits}
    \cup {Star(e) : e \in BaseExprs}
    \cup {Then(And(e), any) : e \in BaseExprs}
    \cup ChoiceRoots

InitFrames == InitWith(FrameRoots \cup OpcodeRoots)

(* Rules whose actions and captures are recorded under one or more Call    *)
(* and LrCall frames.                                                      *)
DepthRoots ==
    {Ref("Deep", 0), Ref("ExprA", 0), Then(Ref("ExprA", 0), eoi),
     Cap(Ref("ExprA", 0), "C1"), Ref("Esc", 0), Ref("Grow", 0),
     Then(Ref("CapTok", 1), Ref("Two", 1))}

(* The parser of start(Deep) on n bytes "a" and a "b" when Deep is entered  *)
(* for the k-th time, k >= 2: k - 1 bytes have been matched and cut away,  *)
(* and Deep has been called once by the start rule and k - 1 times by      *)
(* itself.  Everything that does not grow with k is taken from the second  *)
(* entry.                                                                  *)
DeepText(n) == Repeat(n) \o <<"b">>

DeepStart(n) ==
    parse_begin(NewParser(GrammarOf(Ref("Deep", 0)), DeepText(n), <<>>))

DeepEntry(k, n) ==
    LET second_entry == RunFrom(DeepStart(n), 8)
    IN [second_entry EXCEPT
          !.input_ = DeepText(n - (k - 1)),
          !.cr = k,
          !.registers_ = [@ EXCEPT !.cr = k],
          !.cut_frame_ = k,
          !.stack_frames_ = [i \in 1..(k + 1) |-> "call"],
          !.call_stack_ =
              [i \in 1..(k + 1) |->
                 second_entry.call_stack_[IF i <= 2 THEN i ELSE 3]]]

(* DeepEntry is the state the parser runs into: an entry of Deep is six     *)
(* instructions after the one before.                                       *)
DeepEntryReached ==
    \A k \in 2..4 : DeepEntry(k, 3) = RunFrom(DeepStart(3), 6 * k - 4)

(* The deepest entry whose depth an unsigned short still holds.            *)
DeepLevel == ushort_max

InitDepth ==
    \/ InitWith(DepthRoots \cup OpcodeRoots)
    \/ /\ root = Ref("Deep", 0)
       /\ text = DeepText(DeepLevel - 1)
       /\ InitFrom(DeepEntry(DeepLevel, DeepLevel - 1))
       /\ second = NoParser

(* Literals of one word, of several words and of more than one block.      *)
Bytes(n) == [i \in 1..n |-> IF i % 2 = 1 THEN "a" ELSE "b"]

LiteralSizes == {1, 4, 5, maxstrlen - 1, maxstrlen, maxstrlen + 1}

EncodeRoots ==
    {Lit(Bytes(n)) : n \in LiteralSizes}
    \cup {Then(Lit(Bytes(n)), eoi) : n \in LiteralSizes}
    \cup {Alt(Lit(Bytes(n)), chr("a")) : n \in LiteralSizes}

(* n runes of two bytes, and of four.                                      *)
Pairs(n) == [i \in 1..(2 * n) |-> IF i % 2 = 1 THEN "L" ELSE "T"]

Quads(n) == [i \in 1..(4 * n) |-> IF i % 4 = 1 THEN "L" ELSE "T"]

LongLiterals ==
    {Bytes(maxstrlen - 1), Bytes(maxstrlen + 1), Bytes((2 * maxstrlen) + 1),
     Pairs(129), Quads(65), Bytes(maxstrlen - 1) \o Pairs(1)}

InitEncode ==
    \/ InitWith(EncodeRoots \cup OpcodeRoots)
    \/ \E s \in LongLiterals :
         /\ root = Lit(s)
         /\ text = s
         /\ InitFrom(NewParser(GrammarOf(root), text, <<>>))
         /\ second = NoParser

(* eoi after each base expression, after a lookahead that holds a cut, and *)
(* with the text still in the sources.                                     *)
EoiRoots ==
    {Then(e, eoi) : e \in BaseExprs}
    \cup {Then(chr("a"), Then(And(Then(chr("a"), cut)), eoi)),
          Then(chr("a"), Then(And(Then(any, cut)), Alt(eoi, any))),
          Then(Star(any), eoi), Alt(eoi, Then(any, eoi))}
    \cup StreamRoots

InitEoi == InitWith(EoiRoots \cup OpcodeRoots)

(* Grammars that read to the end of the input, with and without cuts and   *)
(* captures, and the ways their text lies in two sources: the source       *)
(* pushed last is the last of the sequence.                                *)
ReadRoots ==
    StreamRoots
    \cup {Then(Star(any), eoi), Then(Star(Then(any, cut)), eoi),
          Cap(Then(any, Then(cut, Star(any))), "C1")}

Quiet(more) == [text |-> <<>>, more |-> more, push |-> FALSE]

Said(s, more) == [text |-> s, more |-> more, push |-> FALSE]

TwoSources(s) ==
    {<<Chunks(Drop(s, 1)), <<Quiet(TRUE), Said(Take(s, 1), FALSE)>>>>,
     <<Chunks(s), <<Quiet(FALSE)>>>>,
     <<<<Said(Drop(s, 1), FALSE)>>,
       <<Said(Take(s, 1), TRUE), Quiet(TRUE), Quiet(FALSE)>>>>,
     <<<<Quiet(TRUE), Said(Drop(s, 2), TRUE)>>, NoSource,
       <<Said(Take(s, 2), TRUE)>>>>}

InitRead ==
    \/ InitWith(OpcodeRoots)
    \/ \E e \in ReadRoots : \E s \in Inputs : \E srcs \in TwoSources(s) :
       \E enqueued \in {<<>>, <<"a">>} :
         /\ root = e
         /\ text = enqueued \o s
         /\ InitFrom(NewParser(GrammarOf(e), enqueued, srcs))
         /\ second = NoParser

InitEps == InitWith(EpsRoots \cup OpcodeRoots)

InitCalls == InitWith(CallRoots \cup OpcodeRoots)

(***************************************************************************)
(* Actions: the call of parse(), and one per opcode of the loop.           *)
(***************************************************************************)
Parse ==
    /\ status = "constructed"
    /\ Load(parse_begin(M))
    /\ UNCHANGED <<root, text, second>>

(* The instruction at pc, and the parser once decode has advanced pc.      *)
Decoded == decode(prog.instructions, pc)

Fetched == [M EXCEPT !.pc = Decoded.pc]

(* The loop is at an instruction of opcode op.                             *)
At(op) == status = "parsing" /\ Decoded.op = op

(* The rest of a pass of the loop, m being what the handler has made of    *)
(* Fetched.                                                                *)
Pass(m) == Load(Finish(Resume(m)))

Match ==
    /\ At("match")
    /\ Pass(op_match(Fetched, Decoded))
    /\ UNCHANGED <<root, text, second>>

MatchAny ==
    /\ At("match_any")
    /\ \E ub \in UBOutcomes : Pass(op_match_any(Fetched, Decoded, ub))
    /\ UNCHANGED <<root, text, second>>

MatchClass ==
    /\ At("match_class")
    /\ \E ub \in UBOutcomes : Pass(op_match_class(Fetched, Decoded, ub))
    /\ UNCHANGED <<root, text, second>>

MatchRange ==
    /\ At("match_range")
    /\ \E ub \in UBOutcomes : Pass(op_match_range(Fetched, Decoded, ub))
    /\ UNCHANGED <<root, text, second>>

Choice ==
    /\ At("choice")
    /\ Pass(op_choice(Fetched, Decoded))
    /\ UNCHANGED <<root, text, second>>

Commit ==
    /\ At("commit")
    /\ Pass(op_commit(Fetched, Decoded))
    /\ UNCHANGED <<root, text, second>>

JumpOp ==
    /\ At("jump")
    /\ Pass(op_jump(Fetched, Decoded))
    /\ UNCHANGED <<root, text, second>>

Call ==
    /\ At("call")
    /\ Pass(op_call(Fetched, Decoded))
    /\ UNCHANGED <<root, text, second>>

Ret ==
    /\ At("ret")
    /\ Pass(op_ret(Fetched, Decoded))
    /\ UNCHANGED <<root, text, second>>

Fail ==
    /\ At("fail")
    /\ Pass(op_fail(Fetched, Decoded))
    /\ UNCHANGED <<root, text, second>>

Accept ==
    /\ At("accept")
    /\ Pass(op_accept(Fetched, Decoded))
    /\ UNCHANGED <<root, text, second>>

Newline ==
    /\ At("newline")
    /\ Pass(op_newline(Fetched, Decoded))
    /\ UNCHANGED <<root, text, second>>

Predicate ==
    /\ At("predicate")
    /\ Pass(op_predicate(Fetched, Decoded))
    /\ UNCHANGED <<root, text, second>>

Action ==
    /\ At("action")
    /\ Pass(op_action(Fetched, Decoded))
    /\ UNCHANGED <<root, text, second>>

BeginCapture ==
    /\ At("begin_capture")
    /\ Pass(op_begin_capture(Fetched, Decoded))
    /\ UNCHANGED <<root, text, second>>

EndCapture ==
    /\ At("end_capture")
    /\ Pass(op_end_capture(Fetched, Decoded))
    /\ UNCHANGED <<root, text, second>>

Next ==
    \/ Parse
    \/ Match
    \/ MatchAny
    \/ MatchClass
    \/ MatchRange
    \/ Choice
    \/ Commit
    \/ JumpOp
    \/ Call
    \/ Ret
    \/ Fail
    \/ Accept
    \/ Newline
    \/ Predicate
    \/ Action
    \/ BeginCapture
    \/ EndCapture

(* The user calls parse() once more on a parser whose parse() has returned *)
(* or thrown, MaxCalls times in all; the exception is gone by then.        *)
MaxCalls == 2

ParseAgain ==
    /\ status \in {"returned", "threw"}
    /\ calls < MaxCalls
    /\ Load(parse_begin([M EXCEPT !.error = ""]))
    /\ UNCHANGED <<root, text, second>>

(* The user calls push_source on the parser before parse(), with either    *)
(* header; an exception it raises is caught by the user.                   *)
PushSource ==
    /\ status = "constructed"
    /\ pushes = <<>>
    /\ \E header \in Headers :
          Load([CallPushSource(M, SourceOfB, header) EXCEPT !.error = ""])
    /\ UNCHANGED <<root, text, second>>

NextCalls == Next \/ ParseAgain \/ PushSource

(* The second parser takes a step of its own parse(): it reads the program *)
(* of the grammar both parsers refer to and its own fields.                *)
SecondSteps ==
    /\ second.status \in {"constructed", "parsing"}
    /\ second' = LET o == [second EXCEPT !.prog = prog]
                 IN IF o.status = "constructed" THEN parse_begin(o)
                    ELSE Exec(o, 0)
    /\ UNCHANGED <<root, text, prog, input_, ir, cr, lr, rc, pc, fc,
                   registers_, max_input_, parsing_, reading_,
                   cut_deferred_, cut_frame_, sources_, stack_frames_,
                   backtrack_stack_, call_stack_, capture_stack_,
                   lrmemo_stack_, responses_, captures_, prune_depth_,
                   call_depth_, match_, dispatched, result, done, error,
                   status, calls, pushes>>

NextShared == Next \/ SecondSteps

Spec == Init /\ [][Next]_vars

SpecCalls == InitCalls /\ [][NextCalls]_vars

SpecChoice == InitChoice /\ [][Next]_vars

SpecLook == InitLook /\ [][Next]_vars

SpecPlus == InitPlus /\ [][Next]_vars

SpecLink == InitLink /\ [][Next]_vars

SpecInline == InitInline /\ [][Next]_vars

SpecShared == InitShared /\ [][NextShared]_vars

SpecStream == InitStream /\ [][Next]_vars

SpecGrow == InitGrow /\ [][Next]_vars

SpecFrames == InitFrames /\ [][Next]_vars

SpecDepth == InitDepth /\ [][Next]_vars

SpecEncode == InitEncode /\ [][Next]_vars

SpecEps == InitEps /\ [][Next]_vars

SpecEoi == InitEoi /\ [][Next]_vars

SpecRead == InitRead /\ [][Next]_vars

(***************************************************************************)
(* What the properties below speak of.                                     *)
(***************************************************************************)
Returned == status = "returned"

Succeeded(m) == m.status = "returned" /\ m.result

(* The bytes of text not yet pulled from the sources.                      *)
RECURSIVE Pending(_)
Pending(chunks) ==
    IF chunks = <<>> THEN 0 ELSE Len(Head(chunks).text) + Pending(Tail(chunks))

Unread(m) ==
    IF m.sources_ = <<>> THEN 0 ELSE Pending(m.sources_[1])

(* The bytes of text the parser has consumed for good: those that          *)
(* parser::accept has erased from input_.                                  *)
ConsumedBy(m) == Len(text) - Len(m.input_) - Unread(m)

AllStacksEmpty ==
    /\ stack_frames_ = <<>>
    /\ backtrack_stack_ = <<>>
    /\ call_stack_ = <<>>
    /\ capture_stack_ = <<>>
    /\ lrmemo_stack_ = <<>>

(***************************************************************************)
(* C1.  For every linked grammar and every finite input with no pending    *)
(* sources, parser::parse() reaches done = true after finitely many steps. *)
(* A pass of the loop is a function of the parser's state, so a parse that *)
(* ends after finitely many passes is never twice in the same state: no    *)
(* state of a running parse comes back after one to MaxCycle passes.       *)
(***************************************************************************)
MaxCycle == 4

ParseTerminates ==
    status = "parsing" => \A k \in 1..MaxCycle : RunFrom(M, k) /= M

(***************************************************************************)
(* C9.  Within one call of parse(), max_input_.ir, and with it the line    *)
(* and column that max_input_position() reports, never decreases from one  *)
(* step of the loop to the next.                                           *)
(***************************************************************************)
PositionLE(p, q) == p.lr < q.lr \/ (p.lr = q.lr /\ p.cr <= q.cr)

MaxInputMonotone ==
    [][status = "parsing" =>
         /\ max_input_.ir <= max_input_'.ir
         /\ PositionLE(max_input_, max_input_')]_vars

(***************************************************************************)
(* C10.  When parse() returns, true or false, stack_frames_,               *)
(* backtrack_stack_, call_stack_, capture_stack_ and lrmemo_stack_ are all *)
(* empty.                                                                  *)
(***************************************************************************)
StacksEmptyOnReturn == Returned => AllStacksEmpty

(***************************************************************************)
(* C2.  If parsing text with start(e1) succeeds having consumed k bytes,   *)
(* then parsing it with start(e1 | e2) succeeds having consumed exactly k  *)
(* bytes, and no instruction of e2 is executed.                            *)
(***************************************************************************)
(* Where the start rule's body lies: the target of the program's first     *)
(* instruction, call.                                                      *)
BodyAddress == LET I == decode(prog.instructions, 0) IN I.pc + I.off

(* The addresses of e2 in choice L(e1)+2 ; e1 ; commit L(e2) ; e2: from    *)
(* the target of the choice to the target of the commit before it.         *)
SecondAlternative ==
    LET choice == decode(prog.instructions, BodyAddress)
        from   == choice.pc + choice.off
        commit == decode(prog.instructions, from - 2)
    IN from .. (commit.pc + commit.off - 1)

FirstAlone == Run(GrammarOf(root.a), text)

OrderedChoiceFirstCommit ==
    (/\ root \in ChoiceRoots
     /\ \/ status \in {"returned", "threw"}
        \/ status = "parsing" /\ pc \in SecondAlternative
     /\ Succeeded(FirstAlone))
    => /\ Returned
       /\ result
       /\ ConsumedBy(M) = ConsumedBy(FirstAlone)

(* Reached: e1 | e2 has returned true where e1 alone consumes input and    *)
(* e2 alone would have matched nothing or something else.                  *)
OrderedChoiceWitness ==
    /\ root \in ChoiceRoots
    /\ Returned
    /\ result
    /\ Succeeded(FirstAlone)
    /\ ConsumedBy(M) > 0
    /\ ConsumedBy(Run(GrammarOf(root.b), text)) /= ConsumedBy(M)

(***************************************************************************)
(* What a grammar means, told without the machine: the parsing expression  *)
(* e applied to text at pos either fails or matches up to a position,      *)
(* having run a sequence of actions and captures.  A left-recursive rule   *)
(* applied at a position where it is already being applied yields that     *)
(* application's previous answer; otherwise its body is applied again and  *)
(* again, each time with the previous answer for the recursive call, and   *)
(* the longest match so obtained is its answer.  heads lists the           *)
(* applications under way: [name, pos, ans].                               *)
(***************************************************************************)
NoMatch == [ok |-> FALSE, pos |-> 0, acts |-> <<>>]

MatchTo(pos, acts) == [ok |-> TRUE, pos |-> pos, acts |-> acts]

RuleBody(name) ==
    Prelude[CHOOSE i \in 1..Len(Prelude) : Prelude[i].name = name].body

HeadsOf(heads, name, pos) ==
    {i \in 1..Len(heads) : heads[i].name = name /\ heads[i].pos = pos}

Longest(S) == CHOOSE i \in S : \A j \in S : j <= i

RECURSIVE Parses(_, _, _)
RECURSIVE Repeats(_, _, _, _)
RECURSIVE Grows(_, _, _, _, _, _)

Then2(r, q) ==
    IF q.ok THEN MatchTo(q.pos, r.acts \o q.acts) ELSE NoMatch

With(r, response) ==
    IF r.ok THEN MatchTo(r.pos, Append(r.acts, response)) ELSE NoMatch

Parses(e, pos, heads) ==
    CASE e.t = "chr" ->
           IF pos < Len(text) /\ text[pos + 1] = e.c
           THEN MatchTo(pos + 1, <<>>) ELSE NoMatch
      [] e.t = "lit" ->
           IF /\ pos + Len(e.s) <= Len(text)
              /\ SubSeq(text, pos + 1, pos + Len(e.s)) = e.s
           THEN MatchTo(pos + Len(e.s), <<>>) ELSE NoMatch
      [] e.t = "any" ->
           IF pos < Len(text) THEN MatchTo(pos + 1, <<>>) ELSE NoMatch
      [] e.t \in {"eps", "cut", "ilr"} -> MatchTo(pos, <<>>)
      [] e.t = "eoi" ->
           IF pos = Len(text) THEN MatchTo(pos, <<>>) ELSE NoMatch
      [] e.t = "not" ->
           IF Parses(e.e, pos, heads).ok THEN NoMatch
           ELSE MatchTo(pos, <<>>)
      [] e.t = "and" ->
           LET r == Parses(e.e, pos, heads)
           IN IF r.ok THEN MatchTo(pos, r.acts) ELSE NoMatch
      [] e.t = "star" -> Repeats(e.e, pos, heads, <<>>)
      [] e.t = "alt" ->
           LET r == Parses(e.a, pos, heads)
           IN IF r.ok THEN r ELSE Parses(e.b, pos, heads)
      [] e.t = "seq" ->
           LET r == Parses(e.a, pos, heads)
           IN IF r.ok THEN Then2(r, Parses(e.b, r.pos, heads)) ELSE NoMatch
      [] e.t = "act" ->
           With(Parses(e.e, pos, heads),
                [callback |-> e.cb, capture |-> <<>>])
      [] e.t = "cap" ->
           LET r == Parses(e.e, pos, heads)
           IN With(r, [callback |-> e.cb,
                       capture |-> SubSeq(text, pos + 1, r.pos)])
      [] e.t = "ref" ->
           IF e.name \notin LeftRecursive
           THEN Parses(RuleBody(e.name), pos, heads)
           ELSE IF HeadsOf(heads, e.name, pos) /= {}
           THEN heads[Longest(HeadsOf(heads, e.name, pos))].ans
           ELSE Grows(e.name, pos, heads, NoMatch, NoMatch, Len(text) + 2)

(* e*: e again and again while it matches and moves on.  (An e that        *)
(* matches without moving on is repeated for ever: no match is the result.) *)
Repeats(e, pos, heads, acts) ==
    LET r == Parses(e, pos, heads)
    IN IF ~r.ok THEN MatchTo(pos, acts)
       ELSE IF r.pos = pos THEN NoMatch
       ELSE Repeats(e, r.pos, heads, acts \o r.acts)

(* The body applied up to n more times; prev is the previous answer, best  *)
(* the longest so far.                                                     *)
Grows(name, pos, heads, prev, best, n) ==
    LET r == Parses(RuleBody(name), pos,
                    Append(heads, [name |-> name, pos |-> pos, ans |-> prev]))
    IN IF n = 0 \/ ~r.ok \/ r = prev THEN best
       ELSE Grows(name, pos, heads, r,
                  IF ~best.ok \/ r.pos > best.pos THEN r ELSE best, n - 1)

(* The expressions that meaning is given to above.                         *)
RECURSIVE Plain(_)
Plain(e) ==
    CASE e.t \in {"chr", "lit", "any", "eps", "cut", "ilr", "eoi", "ref"}
           -> TRUE
      [] e.t \in {"not", "and", "star", "act", "cap"} -> Plain(e.e)
      [] e.t \in {"alt", "seq"} -> Plain(e.a) /\ Plain(e.b)
      [] OTHER -> FALSE

Expected == Parses(root, 0, <<>>)

(***************************************************************************)
(* C5.  With Expr = Expr > "+" > "a" | "a", start(Expr > eoi) succeeds on  *)
(* "a", "a+a" and "a+a+a", consuming them whole, and fails on "a+"; and    *)
(* for any directly left-recursive rule the machine's seed-and-grow result *)
(* is the longest match obtained by applying the rule's body again and     *)
(* again with the previous answer for the recursive call.                  *)
(***************************************************************************)
LRRoots ==
    {Ref(r, 0) : r \in LeftRecursive}
    \cup {Then(Ref(r, 0), eoi) : r \in LeftRecursive}

SeedAndGrow ==
    (root \in LRRoots /\ status \in {"returned", "threw"})
    => /\ Returned
       /\ result = Expected.ok
       /\ result => ConsumedBy(M) = Expected.pos
       /\ root = Then(Ref("Expr", 0), eoi)
            => /\ text \in {<<"a">>, <<"a", "+", "a">>,
                            <<"a", "+", "a", "+", "a">>}
                    => result /\ ConsumedBy(M) = Len(text)
               /\ text = <<"a", "+">> => ~result

(* Reached: Expr > eoi has matched "a+a+a", the answer having grown twice. *)
SeedAndGrowWitness ==
    /\ root = Then(Ref("Expr", 0), eoi)
    /\ text = <<"a", "+", "a", "+", "a">>
    /\ Returned
    /\ result
    /\ ConsumedBy(M) = 5
    /\ Unread(M) = 0

(***************************************************************************)
(* C6.  On a successful parse the callbacks semantics::accept invokes come *)
(* in the order in which their action and end_capture instructions were    *)
(* executed on the trace that was accepted: alternatives that failed       *)
(* contribute nothing, and responses replayed from a left-recursion memo   *)
(* keep their place.  (A callback that calls escape() prunes callbacks     *)
(* that follow it; those left still come in that order.)                   *)
(***************************************************************************)
Names(acts) == [i \in 1..Len(acts) |-> acts[i].callback]

Views(acts) == [i \in 1..Len(acts) |-> acts[i].capture]

RECURSIVE IsSubsequence(_, _)
IsSubsequence(a, b) ==
    IF a = <<>> THEN TRUE
    ELSE IF b = <<>> THEN FALSE
    ELSE IF Head(a) = Head(b) THEN IsSubsequence(Tail(a), Tail(b))
    ELSE IsSubsequence(a, Tail(b))

Escapes(acts) == \E i \in 1..Len(acts) : acts[i].callback \in EscapingCallbacks

ResponseOrder ==
    (Plain(root) /\ Returned /\ result)
    => /\ IsSubsequence(Names(dispatched), Names(Expected.acts))
       /\ ~Escapes(Expected.acts)
            => Names(dispatched) = Names(Expected.acts)

(* Reached: ExprA > eoi has matched "a+a+a"; the responses of the seed and *)
(* of the first growth were replayed from the memo, and A1, A2, A2 were    *)
(* invoked.                                                                *)
ResponseOrderWitness ==
    /\ root = Then(Ref("ExprA", 0), eoi)
    /\ text = <<"a", "+", "a", "+", "a">>
    /\ Returned
    /\ result
    /\ Names(dispatched) = <<"A1", "A2", "A2">>

(***************************************************************************)
(* C8.  The syntax view handed to every capture callback holds the bytes   *)
(* of the input that lay between the ir at the matching begin_capture and  *)
(* the ir at end_capture, also when a cut was executed before the capture  *)
(* or was deferred and fires while the capture frame is popped.            *)
(***************************************************************************)
CaptureViews ==
    (Plain(root) /\ Returned /\ result /\ ~Escapes(Expected.acts))
    => Views(dispatched) = Views(Expected.acts)

(***************************************************************************)
(* C3.  !!e succeeds iff e succeeds at the same position; !!e and &e leave *)
(* ir, cr and lr as they were before the lookahead; and &e and !!e give    *)
(* the same result on every input.  Here the lookahead follows a prefix p: *)
(* the grammar is start(p > !!e) or start(p > &e).                         *)
(***************************************************************************)
IsLookahead ==
    /\ root.t = "seq"
    /\ root.a \in Prefixes
    /\ \/ root.b.t = "and"
       \/ root.b.t = "not" /\ root.b.e.t = "not"

(* The e under the lookahead, and the lookahead written the other way.     *)
LookedAt == IF root.b.t = "and" THEN root.b.e ELSE root.b.e.e

OtherLookahead ==
    IF root.b.t = "and" THEN Not(Not(LookedAt)) ELSE And(LookedAt)

LookaheadLaw ==
    (IsLookahead /\ status \in {"returned", "threw"})
    => LET plain  == Run(GrammarOf(Then(root.a, LookedAt)), text)
           before == Run(GrammarOf(root.a), text)
           other  == Run(GrammarOf(Then(root.a, OtherLookahead)), text)
       IN /\ Returned
          /\ result = Succeeded(plain)
          /\ result => /\ ConsumedBy(M) = ConsumedBy(before)
                       /\ registers_.cr = before.registers_.cr
                       /\ registers_.lr = before.registers_.lr
          /\ result = Succeeded(other)

(***************************************************************************)
(* C4.  parse(s, start(e)) and parse(s, start(e > eps)) return the same    *)
(* boolean, consume the same number of bytes and dispatch the same         *)
(* sequence of semantic actions.                                           *)
(***************************************************************************)
RightIdentity ==
    (root \in EpsRoots /\ status \in {"returned", "threw"})
    => LET alone == Run(GrammarOf(root.a), text)
       IN /\ status = alone.status
          /\ result = alone.result
          /\ ConsumedBy(M) = ConsumedBy(alone)
          /\ dispatched = alone.dispatched

(* Reached: e > eps has matched, consumed input and invoked callbacks.     *)
RightIdentityWitness ==
    /\ root \in EpsRoots
    /\ Returned
    /\ result
    /\ ConsumedBy(M) > 0
    /\ dispatched /= <<>>

(***************************************************************************)
(* C7.  No action or capture callback is invoked before the machine        *)
(* executes an accept (cut or accept_final) with no Capture and no LrMemo  *)
(* frame open.  While cut_frame_ is 0 parser::accept has not run in this   *)
(* parse, so no such accept has been executed yet: a pass that invokes a   *)
(* callback then has to be one that executes such an accept.               *)
(***************************************************************************)
CallbacksOnlyOnAccept ==
    [][(dispatched' /= dispatched /\ cut_frame_ = 0 /\ status = "parsing")
         => /\ Decoded.op = "accept"
            /\ capture_stack_ = <<>>
            /\ lrmemo_stack_ = <<>>]_vars

(***************************************************************************)
(* C11.  At every step stack_frames_ is as long as backtrack_stack_,       *)
(* call_stack_, capture_stack_ and lrmemo_stack_ together, and holds as    *)
(* many tags of each type as the stack of that type holds frames.  Every   *)
(* pop takes one tag and one frame, so a pop from a stack whose type is    *)
(* not the top tag's would leave two of the counts unequal: the counts     *)
(* staying equal says that a typed stack is popped only under its own tag. *)
(***************************************************************************)
Tags(frame) ==
    Cardinality({i \in 1..Len(stack_frames_) : stack_frames_[i] = frame})

StacksParallel ==
    /\ Len(stack_frames_) = Len(backtrack_stack_) + Len(call_stack_)
                              + Len(capture_stack_) + Len(lrmemo_stack_)
    /\ Tags("backtrack") = Len(backtrack_stack_)
    /\ Tags("call") = Len(call_stack_)
    /\ Tags("capture") = Len(capture_stack_)
    /\ Tags("lrcall") = Len(lrmemo_stack_)

(* Reached: a call frame, a left-recursion memo that already holds a seed  *)
(* (a ret has stored it and restarted the rule) and a backtrack frame are  *)
(* open at once.                                                           *)
StacksParallelWitness ==
    /\ status = "parsing"
    /\ Len(stack_frames_) >= 3
    /\ call_stack_ /= <<>>
    /\ lrmemo_stack_ /= <<>>
    /\ backtrack_stack_ /= <<>>
    /\ Back(lrmemo_stack_).sa.ir /= lrfailcode

Reentered(m) == parse_begin([m EXCEPT !.error = ""])

ReentrancyGuard ==
    /\ status = "parsing"
         => /\ parsing_
            /\ Reentered(M).error = "reenterant_parse_error"
            /\ Reentered(M).parsing_
            /\ Reentered(M).calls = calls
    /\ status \in {"returned", "threw"}
         => /\ ~parsing_
            /\ Reentered(M).error = ""
            /\ Reentered(M).status = "parsing"
            /\ Reentered(M).calls = calls + 1
    /\ (root = Then(chr("a"), Then(Pred("try_parse"), chr("b")))
          /\ Take(text, 2) = <<"a", "b">> /\ pushes = <<>> /\ calls = 1
          /\ Returned)
         => result

(* Reached: the first parse() of "ab" with a > parse > b was ended by the  *)
(* reenterant_parse_error of the call its predicate made, and parse() has  *)
(* been called again and is running.                                       *)
ReentrancyGuardWitness ==
    /\ root = Then(chr("a"), Then(Pred("parse"), chr("b")))
    /\ text = <<"a", "b">>
    /\ calls = 2
    /\ status = "parsing"
    /\ parsing_

(***************************************************************************)
(* C14.  push_source raises reenterant_read_error exactly when it is       *)
(* called while read_more is running a source callback (reading_ is set);  *)
(* called when no read is in progress it raises nothing, appends the       *)
(* source and leaves the input buffer and the registers as they were.      *)
(* Every call is in the log pushes, with the header whose push_source it   *)
(* was.                                                                    *)
(***************************************************************************)
PushSourceGuard ==
    \A i \in 1..Len(pushes) :
        /\ (pushes[i].error = "reenterant_read_error") <=> pushes[i].reading
        /\ ~pushes[i].reading
             => /\ pushes[i].error = ""
                /\ pushes[i].appended
                /\ pushes[i].untouched

(***************************************************************************)
(* C15.  parse() raises no error but the two reentrancy errors and         *)
(* bad_opcode: whatever is wrong with a grammar is raised while the rule   *)
(* or the grammar is made.  (An undefined read is not an error raised; the *)
(* callbacks of the model raise nothing.)                                  *)
(***************************************************************************)
ParseErrors ==
    status = "threw"
      => error \in {"reenterant_parse_error", "reenterant_read_error",
                    "bad_opcode", "undefined"}

(***************************************************************************)
(* C16.  An input that does not match makes parse() return false and       *)
(* raise nothing, and max_input_position() then tells the column and line  *)
(* of the furthest position a failure occurred at: with S = "a" > eoi the  *)
(* input "a" is accepted and the input "ab" is rejected with column 2.     *)
(***************************************************************************)
MismatchReport ==
    (root = Then(chr("a"), eoi) /\ status \in {"returned", "threw"})
    => /\ Returned
       /\ text = <<"a">> => result
       /\ text = <<"a", "b">>
            => /\ ~result
               /\ max_input_.cr = 2
               /\ max_input_.lr = 1

(***************************************************************************)
(* C17.  A predicate that returns false is a match failure at that point:  *)
(* the machine unwinds to the nearest Backtrack frame, restores ir, cr, lr *)
(* and rc from it and goes on at the next alternative (and with no         *)
(* Backtrack frame left the parse returns false).  With                    *)
(* S = "a" > false | true > "ab" followed by eoi, "a" is rejected and "ab" *)
(* is accepted; with S = +("a" > pred) followed by eoi, pred holding while *)
(* the subject index is <= 4, one to four "a" are accepted and "", "b" and *)
(* "aaaaa" are rejected.                                                   *)
(***************************************************************************)
SimplePredicates ==
    Then(Alt(Then(chr("a"), Pred("false")),
             Then(Pred("true"), Lit(<<"a", "b">>))), eoi)

SubjectIndexPredicate == Then(Plus(Then(chr("a"), Pred("ir<=4"))), eoi)

PredicateExamples ==
    Returned
    => /\ (root = SimplePredicates /\ text = <<"a">>) => ~result
       /\ (root = SimplePredicates /\ text = <<"a", "b">>) => result
       /\ root = SubjectIndexPredicate
            => (result <=> text \in {Repeat(k) : k \in 1..4})

PredicateFailed ==
    /\ At("predicate")
    /\ ~PredicateHolds(prog.predicates[Decoded.imm + 1],
                       [M EXCEPT !.registers_ = Registers(M, 0)])
    /\ cut_frame_ = 0
    /\ lrmemo_stack_ = <<>>

PredicateUnwinds ==
    PredicateFailed
    => IF backtrack_stack_ = <<>>
       THEN status' = "returned" /\ ~result'
       ELSE /\ status' = "parsing"
            /\ ir' = Back(backtrack_stack_).ir
            /\ cr' = Back(backtrack_stack_).cr
            /\ lr' = Back(backtrack_stack_).lr
            /\ rc' = Back(backtrack_stack_).rc
            /\ pc' = Back(backtrack_stack_).pc
            /\ backtrack_stack_' = PopBack(backtrack_stack_)
            /\ responses_' = Take(responses_, Back(backtrack_stack_).rc)

PredicateGate == []PredicateExamples /\ [][PredicateUnwinds]_vars

(* Reached: "aaaaa" has been rejected, the predicate having failed at the  *)
(* fifth "a" (the furthest failure is at index 5).                         *)
PredicateGateWitness ==
    /\ root = SubjectIndexPredicate
    /\ text = Repeat(5)
    /\ Returned
    /\ ~result
    /\ max_input_.ir = 5

(***************************************************************************)
(* C18.  An ordered choice is not entered again once it has committed:     *)
(* with S = ("a" | "ab") > eoi the input "ab" is rejected, while           *)
(* S = ("ab" | "a") > eoi accepts "a" and "ab".  In (e1 | e2) > f the      *)
(* commit after e1 pops the Backtrack frame of the choice, so no failure   *)
(* in f resumes at e2: the instructions of e2 are only ever reached on     *)
(* inputs on which e1 itself fails.                                        *)
(***************************************************************************)
CommittedChoice ==
    /\ (root = Then(Alt(chr("a"), Lit(<<"a", "b">>)), eoi) /\ Returned
          /\ text = <<"a", "b">>) => ~result
    /\ (root = Then(Alt(Lit(<<"a", "b">>), chr("a")), eoi) /\ Returned
          /\ text \in {<<"a">>, <<"a", "b">>}) => result
    /\ (root \in CommitRoots /\ status = "parsing"
          /\ pc \in SecondAlternative)
         => ~Succeeded(Run(GrammarOf(root.a.a), text))

(* Reached: ("a" | "ab") > eoi has rejected "ab": "a" matched, the choice  *)
(* committed, and eoi failed at the "b" with no frame of the choice left.  *)
CommittedChoiceWitness ==
    /\ root = Then(Alt(chr("a"), Lit(<<"a", "b">>)), eoi)
    /\ text = <<"a", "b">>
    /\ Returned
    /\ ~result
    /\ max_input_.ir = 2

(***************************************************************************)
(* C19.  With S = +("a") > eoi, parse returns false on "", true on "a"     *)
(* and on "aaaa", and false on "aaab"; and for every e, whenever           *)
(* parse of +e > eoi ends, it returns, and returns true exactly when the   *)
(* input is one or more consecutive matches of e.                          *)
(***************************************************************************)
RECURSIVE Consecutive(_, _)
Consecutive(e, pos) ==
    LET r == Parses(e, pos, <<>>)
    IN /\ r.ok
       /\ \/ r.pos = Len(text)
          \/ r.pos > pos /\ Consecutive(e, r.pos)

PlusExamples ==
    (root = Then(Plus(chr("a")), eoi) /\ Returned)
       => /\ text = <<>> => ~result
          /\ text \in {Repeat(1), Repeat(4)} => result
          /\ text = Repeat(3) \o <<"b">> => ~result

GreedyRepetition ==
    /\ PlusExamples
    /\ (root \in PlusRoots /\ status \in {"returned", "threw"})
         => /\ Returned
            /\ result <=> Consecutive(root.a.a, 0)

(***************************************************************************)
(* C20.  Once a cut has committed (accept has set cut_frame_), the frames  *)
(* that were on the stack at the cut, those at depth cut_frame_ or below,  *)
(* are never used to retreat: no step other than a commit or ret on the    *)
(* success path takes one of them off the stack, a fail reached with no    *)
(* frame above cut_frame_ ends the parse with false, and a commit_back     *)
(* whose Backtrack frame is one of them leaves the subject where it is     *)
(* instead of restoring the subject saved in that frame.                   *)
(***************************************************************************)
FramesBeforeCut == Min(cut_frame_, Len(stack_frames_))

FailurePastCut ==
    /\ At("fail")
    /\ cut_frame_ > 0
    /\ cut_frame_ >= Len(stack_frames_)

CommitBackBeforeCut ==
    /\ At("commit")
    /\ Decoded.alt = altcode_commit_back
    /\ stack_frames_ /= <<>>
    /\ Back(stack_frames_) = "backtrack"
    /\ cut_frame_ >= Len(stack_frames_)

CutKept ==
    /\ (status = "parsing" /\ Len(stack_frames_') < FramesBeforeCut)
         => /\ At("commit") \/ At("ret")
            /\ Len(stack_frames_') = Len(stack_frames_) - 1
            /\ status' = "parsing"
    /\ FailurePastCut => status' = "returned" /\ ~result'
    /\ CommitBackBeforeCut => ir' = ir /\ cr' = cr /\ lr' = lr

CutIsFinal == [][CutKept]_vars

(***************************************************************************)
(* C21.  When accept runs over the response log, a response is dispatched  *)
(* unless an escape is pending at a depth d <= its call_depth; a           *)
(* dispatched response clears the pending escape before its callback runs, *)
(* so after a callback at depth d has called escape() the responses of     *)
(* call_depth >= d are skipped up to the first response of call_depth < d, *)
(* which is dispatched and ends the pruning.                               *)
(***************************************************************************)
CallbackOf(r) ==
    IF r.capture_index /= no_capture THEN prog.captures[r.action_index + 1]
    ELSE prog.actions[r.action_index + 1]

(* The indexes of the responses the rule above dispatches, from index i    *)
(* on, d being the depth of the pending escape (ushort_max, deeper than    *)
(* every response, when none is pending).                                  *)
RECURSIVE Survivors(_, _, _)
Survivors(rs, i, d) ==
    IF i > Len(rs) THEN <<>>
    ELSE IF rs[i].call_depth >= d
    THEN Survivors(rs, i + 1, d)
    ELSE <<i>> \o Survivors(rs, i + 1,
                            IF CallbackOf(rs[i]) \in EscapingCallbacks
                            THEN rs[i].call_depth ELSE ushort_max)

AcceptRuns ==
    /\ At("accept")
    /\ capture_stack_ = <<>>
    /\ lrmemo_stack_ = <<>>

AcceptPrunes ==
    (AcceptRuns /\ error' = "")
    => LET s == Survivors(responses_, 1, ushort_max)
           n == Len(dispatched)
       IN /\ Len(dispatched') = n + Len(s)
          /\ \A k \in 1..Len(s) :
               /\ dispatched'[n + k].callback = CallbackOf(responses_[s[k]])
               /\ dispatched'[n + k].depth = responses_[s[k]].call_depth

EscapePrunes == [][AcceptPrunes]_vars

(* Reached: Esc has escaped at depth 2, the two responses after it (depths *)
(* 3 and 2) were skipped, the caller's action at depth 1 was dispatched    *)
(* and so was the response at depth 2 that follows it.                     *)
EscapePrunesWitness ==
    /\ root = Then(Act(Ref("Esc", 0), "A2"), Act(Ref("ExprA", 0), "A1"))
    /\ text = Repeat(3)
    /\ Returned
    /\ result
    /\ [i \in 1..Len(dispatched) |->
          <<dispatched[i].callback, dispatched[i].depth>>]
         = <<<<"X", 2>>, <<"A2", 1>>, <<"A1", 2>>, <<"A1", 1>>>>

(***************************************************************************)
(* C22.  The program start(root) makes begins with call root and           *)
(* accept_final (three words); after them every program reachable from     *)
(* root through the callee lists lies exactly once, each followed by one   *)
(* ret, and nothing else; and every call instruction, at address a with    *)
(* offset word off, has a + 2 + off equal to the address recorded for its  *)
(* callee's program, plus 3 when the callee is another grammar's program.  *)
(***************************************************************************)
CalleesOf(env, p) == {env[p].callees_[k] : k \in 1..Len(env[p].callees_)}

RECURSIVE Reach(_, _)
Reach(env, seen) ==
    LET more == seen \cup UNION {{c.program : c \in CalleesOf(env, p)}
                                   : p \in seen}
    IN IF more = seen THEN seen ELSE Reach(env, more)

GrammarsOf(defs) ==
    {defs[i].name : i \in {j \in 1..Len(defs) : "program" \in DOMAIN defs[j]}}

SameInstruction(w, v) ==
    /\ w.k = v.k
    /\ w.k = "pf" => w.op = v.op /\ w.aux = v.aux
    /\ w.k = "str" => w = v

LaidOut(defs, code) ==
    LET env   == RuleEnv(defs)
        top   == defs[Len(defs)].name
        addr  == LinkState(env, top).addresses
        progs == Reach(env, {top})
        grams == GrammarsOf(defs)
        size(p) == Len(env[p].program_.instructions)
        Segment(p) == addr[p]..(addr[p] + size(p))
        Target(a) == a + 2 + code[a + 2].off
        Entry(p) == addr[p] + (IF p \in grams THEN GrammarHeader ELSE 0)
    IN /\ code[1].k = "pf" /\ code[1].op = "call" /\ Target(0) = addr[top]
       /\ code[3] = Pf("accept", altcode_accept_final, 0)
       /\ DOMAIN addr = progs
       /\ \A p \in progs :
            /\ addr[p] >= 3
            /\ addr[p] + size(p) < Len(code)
            /\ code[addr[p] + size(p) + 1] = Pf("ret", 0, 0)
            /\ \A i \in 1..size(p) :
                 SameInstruction(code[addr[p] + i],
                                 env[p].program_.instructions[i])
       /\ \A p, q \in progs : p /= q => Segment(p) \cap Segment(q) = {}
       /\ \A a \in 3..(Len(code) - 1) : \E p \in progs : a \in Segment(p)
       /\ \A p \in progs \ grams :
            /\ \A c \in CalleesOf(env, p) :
                 /\ code[addr[p] + c.offset + 1].op = "call"
                 /\ Target(addr[p] + c.offset) = Entry(c.program)
            /\ \A i \in 1..size(p) :
                 (code[addr[p] + i].k = "pf" /\ code[addr[p] + i].op = "call")
                 => \E c \in CalleesOf(env, p) : c.offset = i - 1
       /\ \A g \in progs \cap grams :
            \A i \in 1..size(g) :
               code[addr[g] + i].k = "off"
               => code[addr[g] + i].off = env[g].program_.instructions[i].off

LinkedLayout ==
    /\ LaidOut(SubDefs, SubProgram.instructions)
    /\ (root \in LinkRoots /\ status = "constructed")
         => LaidOut(Prelude \o <<[name |-> "S", body |-> root]>>,
                    prog.instructions)

(* Reached: the grammar of Sub > Esc[3] is linked: its call into the       *)
(* grammar Sub at address 3 lands 3 words after the place Sub's program    *)
(* was laid at, behind S, Esc and ExprA.                                   *)
LinkedLayoutWitness ==
    /\ root = Then(Gram("Sub"), Ref("Esc", 3))
    /\ status = "constructed"
    /\ prog.instructions[4].op = "call"
    /\ prog.instructions[5] = OffWord(28)
    /\ prog.instructions[31].op = "call"
    /\ Len(prog.instructions) = 30 + Len(SubProgram.instructions) + 1

(***************************************************************************)
(* C23.  In the linked program the precedence immediate of every linked    *)
(* call is nonzero exactly when the callee's program was marked            *)
(* left-recursive: 1 when 0 was encoded, the encoded precedence when that  *)
(* was nonzero, and 0 for a callee that is not marked whatever was         *)
(* encoded.  A program is marked exactly when one of the callees the       *)
(* traversal went through was a left-most call whose rule is on the        *)
(* traversal's callstack with every frame above that one left-most.        *)
(***************************************************************************)
OnCallstackLeftMost(scan) ==
    /\ scan.callee.left_most
    /\ \E j \in 1..Len(scan.callstack) :
         /\ scan.callstack[j].rule = scan.callee.rule
         /\ \A i \in (j + 1)..Len(scan.callstack) : scan.callstack[i].lm

PrecedenceOf(defs, code) ==
    LET st  == LinkState(RuleEnv(defs), defs[Len(defs)].name)
        raw == st.grprogram.instructions
    IN /\ st.left_recursive =
            {st.scans[k].callee.program :
               k \in {i \in 1..Len(st.scans) :
                        OnCallstackLeftMost(st.scans[i])}}
       /\ \A k \in 1..Len(st.calls) :
            LET c       == st.calls[k]
                marked  == c.program \in st.left_recursive
                encoded == raw[c.addr + 1].val
                linked  == code[c.addr + 1].val
            IN /\ code[c.addr + 1].op = "call"
               /\ linked /= 0 <=> marked
               /\ (marked /\ encoded = 0) => linked = 1
               /\ (marked /\ encoded /= 0) => linked = encoded
               /\ ~marked => linked = 0

LinkedPrecedences ==
    (root \in LinkRoots /\ status = "constructed")
    => PrecedenceOf(Prelude \o <<[name |-> "S", body |-> root]>>,
                    prog.instructions)

(* Reached: in the grammar of !"b" > Expr[2] the call of Expr from S keeps *)
(* its precedence 2 and the call of Expr inside Expr, encoded with 0, has  *)
(* the precedence 1.                                                       *)
LinkedPrecedencesWitness ==
    /\ root = Then(Not(chr("b")), Ref("Expr", 2))
    /\ status = "constructed"
    /\ \E a, b \in 1..Len(prog.instructions) :
         /\ a < b
         /\ prog.instructions[a].k = "pf" /\ prog.instructions[a].op = "call"
         /\ prog.instructions[a].val = 2
         /\ prog.instructions[b].k = "pf" /\ prog.instructions[b].op = "call"
         /\ prog.instructions[b].val = 1

(***************************************************************************)
(* C24.  The left_most flag recorded for a callee of a rule is true        *)
(* exactly when everything evaluated before the call, in the body of the   *)
(* rule, can succeed without consuming input; so the call in ~e > R and    *)
(* in (e1 | e2) > R with one alternative that can match nothing is         *)
(* recorded as left-most.                                                  *)
(***************************************************************************)
(* The rules that can match the empty input: Null = Null "a" | eps.        *)
EmptyMatchingRules == {"Null"}

RECURSIVE CanBeEmpty(_)
CanBeEmpty(e) ==
    CASE e.t \in {"chr", "any", "range", "cls", "gram"} -> FALSE
      [] e.t = "lit" -> e.s = <<>>
      [] e.t \in {"eps", "cut", "ilr", "eoi", "pred", "not", "and", "star"}
           -> TRUE
      [] e.t = "alt" -> CanBeEmpty(e.a) \/ CanBeEmpty(e.b)
      [] e.t = "seq" -> CanBeEmpty(e.a) /\ CanBeEmpty(e.b)
      [] e.t \in {"act", "cap"} -> CanBeEmpty(e.e)
      [] e.t = "ref" -> e.name \in EmptyMatchingRules
      [] OTHER -> FALSE

(* The flags of the calls of e in the order they are encoded, z telling    *)
(* whether everything before e can succeed without consuming.              *)
RECURSIVE LeftMostOf(_, _, _)
LeftMostOf(env, e, z) ==
    CASE e.t = "ref" ->
           IF ShouldInline(env, e.name, e.prec, TRUE, "S") THEN <<>>
           ELSE <<z>>
      [] e.t = "gram" -> <<z>>
      [] e.t = "seq" ->
           LeftMostOf(env, e.a, z)
             \o LeftMostOf(env, e.b, z /\ CanBeEmpty(e.a))
      [] e.t = "alt" -> LeftMostOf(env, e.a, z) \o LeftMostOf(env, e.b, z)
      [] e.t \in {"not", "and", "star", "act", "cap"}
           -> LeftMostOf(env, e.e, z)
      [] OTHER -> <<>>

LeftMostRecorded ==
    (root \in LinkRoots /\ status = "constructed")
    => LET env == RuleEnv(Prelude \o <<[name |-> "S", body |-> root]>>)
           callees == env["S"].callees_
       IN [k \in 1..Len(callees) |-> callees[k].left_most]
            = LeftMostOf(env, root, TRUE)

(***************************************************************************)
(* C25.  A grammar that refers to a rule gives the same result, consumes   *)
(* as much and dispatches the same callbacks in the same order whether     *)
(* encoder::call inlines the rule's program or encodes a call of it; and   *)
(* a rule is inlined only if it has no callees, at most 8 instruction      *)
(* words and at most one predicate, one action and one capture.            *)
(***************************************************************************)
(* The same expression with every rule reference made through rule[1]: a   *)
(* precedence above 0 is never inlined, and the linker sets it back to 0   *)
(* for these rules.                                                        *)
RECURSIVE Called(_)
Called(e) ==
    CASE e.t = "ref" -> Ref(e.name, 1)
      [] e.t \in {"not", "and", "star", "act", "cap"}
           -> [e EXCEPT !.e = Called(e.e)]
      [] e.t \in {"alt", "seq"}
           -> [e EXCEPT !.a = Called(e.a), !.b = Called(e.b)]
      [] OTHER -> e

CallbacksOf(log) == [i \in 1..Len(log) |-> log[i].callback]

RECURSIVE RulesIn(_)
RulesIn(e) ==
    CASE e.t = "ref" -> {e.name}
      [] e.t \in {"not", "and", "star", "act", "cap"} -> RulesIn(e.e)
      [] e.t \in {"alt", "seq"} -> RulesIn(e.a) \cup RulesIn(e.b)
      [] OTHER -> {}

InlinedOnlyIfSmall ==
    LET env == RuleEnv(Prelude \o <<[name |-> "S", body |-> root]>>)
    IN \A r \in RulesIn(root) \ {c.rule : c \in CalleesOf(env, "S")} :
         /\ env[r].callees_ = <<>>
         /\ Len(env[r].program_.instructions) <= 8
         /\ Len(env[r].program_.predicates) <= 1
         /\ Len(env[r].program_.actions) <= 1
         /\ Len(env[r].program_.captures) <= 1

InliningUnobservable ==
    /\ (root \in InlineRoots /\ status = "constructed") => InlinedOnlyIfSmall
    /\ (root \in InlineRoots /\ status \in {"returned", "threw"})
         => LET m == Run(GrammarOf(Called(root)), text)
            IN /\ status = m.status
               /\ result = m.result
               /\ result => input_ = m.input_ /\ ir = m.ir
               /\ CallbacksOf(dispatched) = CallbacksOf(m.dispatched)

(***************************************************************************)
(* C26.  No step of parse() changes the program of the grammar, its        *)
(* instructions or its side tables; so two parsers made over one grammar   *)
(* and given the same input, their steps interleaved in any way, end with  *)
(* the same result, the same dispatched responses and the same response    *)
(* log, and so does a parser run over the grammar after they have ended.   *)
(***************************************************************************)
Ended(s) == s \in {"returned", "threw"}

SameOutcome(m) ==
    /\ status = m.status
    /\ result = m.result
    /\ error = m.error
    /\ dispatched = m.dispatched
    /\ responses_ = m.responses_

ParsersAgree ==
    /\ (Ended(status) /\ Ended(second.status)) => SameOutcome(second)
    /\ (Ended(status) /\ second /= NoParser) => SameOutcome(Run(prog, text))

BytesNeeded ==
    CASE Decoded.op = "match" -> Len(Decoded.str)
      [] Decoded.op \in {"match_any", "match_class"} -> 1
      [] Decoded.op = "match_range" ->
           Min(Decoded.imm, Len(Decoded.str) - Decoded.imm)
      [] OTHER -> 0

NeedsInput ==
    /\ status = "parsing"
    /\ BytesNeeded > 0
    /\ ir <= Len(input_)
    /\ Len(input_) - ir < BytesNeeded
    /\ \E i \in 1..Len(sources_) : sources_[i] /= <<>>

PulledBeforeFailing == [][NeedsInput => sources_' /= sources_]_vars

(***************************************************************************)
(* C28.  In the failure loop, entered with count fc + 1: a Backtrack frame *)
(* restores (ir, cr, lr, rc, pc) and consumes one count; a Call or Capture *)
(* frame restores nothing and consumes no count; an LrCall frame with an   *)
(* answer restores the answer's subject, pcr and the memo's responses and  *)
(* consumes one count, one whose answer is FAIL consumes no count; after   *)
(* the loop the response log is truncated to rc.                           *)
(***************************************************************************)
(* The iterations of the loop from m: the parser before each and after its *)
(* --fc.                                                                   *)
RECURSIVE FailSteps(_)
FailSteps(m) ==
    IF m.fc <= 0 \/ m.cut_frame_ >= Len(m.stack_frames_) THEN <<>>
    ELSE LET m1 == FailFrame(m)
             m2 == [m1 EXCEPT !.fc = @ - 1]
         IN IF m1.error /= "" THEN <<[before |-> m, after |-> m1]>>
            ELSE <<[before |-> m, after |-> m2]>> \o FailSteps(m2)

(* The handlers of the instruction at pc that leave for the label failure, *)
(* at the head of the loop.                                                *)
FailureEntries ==
    IF status /= "parsing" THEN {}
    ELSE {[h EXCEPT !.fc = @ + 1] :
            h \in {d \in {Dispatch(Fetched, Decoded, ub) : ub \in UBOutcomes} :
                     d.error = "" /\ d.at_failure}}

SubjectOf(m) == <<m.ir, m.cr, m.lr>>

FrameLaw(s) ==
    LET b == s.before
        a == s.after
        top == Back(b.stack_frames_)
    IN a.error = "" =>
       CASE top = "backtrack" ->
              LET f == Back(b.backtrack_stack_)
              IN /\ <<a.ir, a.cr, a.lr, a.rc, a.pc>>
                      = <<f.ir, f.cr, f.lr, f.rc, f.pc>>
                 /\ a.fc = b.fc - 1
         [] top \in {"call", "capture"} ->
              /\ <<a.ir, a.cr, a.lr, a.rc, a.pc>>
                   = <<b.ir, b.cr, b.lr, b.rc, b.pc>>
              /\ a.fc = b.fc
         [] top = "lrcall" ->
              LET memo == Back(b.lrmemo_stack_)
              IN IF memo.sa.ir /= lrfailcode
                 THEN /\ SubjectOf(a) = SubjectOf(memo.sa)
                      /\ a.pc = memo.pcr
                      /\ a.responses_
                           = Take(b.responses_, memo.rcr) \o memo.responses
                      /\ a.rc = Len(a.responses_)
                      /\ a.fc = b.fc - 1
                 ELSE a.fc = b.fc

FailureLoopLaw ==
    \A e \in FailureEntries :
      LET steps == FailSteps(e)
          last == IF steps = <<>> THEN e ELSE Back(steps).after
          out == Failure([e EXCEPT !.fc = @ - 1])
      IN /\ \A i \in 1..Len(steps) : FrameLaw(steps[i])
         /\ out.error = "" => out.responses_ = Take(last.responses_, last.rc)

(***************************************************************************)
(* C29.  In the grow loop of a left-recursive call, each time ret          *)
(* re-enters the callee the answer kept in the memo lies strictly after    *)
(* the answer it replaces and between the seed and the end of the input,   *)
(* so that one LrCall frame is re-entered at most |input| - sr.ir + 1      *)
(* times; when ret finds ir <= sa.ir it restores the best answer, sets pc  *)
(* to pcr and pops the frame.                                              *)
(***************************************************************************)
RetOnLrCall ==
    /\ At("ret")
    /\ stack_frames_ /= <<>>
    /\ Back(stack_frames_) = "lrcall"

(* After the step the frame is still there and the loop is at the callee.  *)
CalleeReentered ==
    /\ status' = "parsing"
    /\ Len(lrmemo_stack_') = Len(lrmemo_stack_)
    /\ pc' = Back(lrmemo_stack_).pca

GrowthLaw ==
    RetOnLrCall =>
      LET memo == Back(lrmemo_stack_) IN
      /\ CalleeReentered =>
           LET grown == Back(lrmemo_stack_') IN
           /\ grown.sa = [ir |-> ir, cr |-> cr, lr |-> lr]
           /\ memo.sa.ir /= lrfailcode => grown.sa.ir > memo.sa.ir
           /\ memo.sr.ir <= grown.sa.ir
           /\ grown.sa.ir <= Len(input_)
           /\ <<ir', cr', lr'>> = <<memo.sr.ir, memo.sr.cr, memo.sr.lr>>
      /\ (memo.sa.ir /= lrfailcode /\ ir <= memo.sa.ir /\ error' = "") =>
           /\ Drop(input_', ir') = Drop(input_, memo.sa.ir)
           /\ <<cr', lr'>> = <<memo.sa.cr, memo.sa.lr>>
           /\ pc' = memo.pcr
           /\ lrmemo_stack_' = PopBack(lrmemo_stack_)
           /\ stack_frames_' = PopBack(stack_frames_)

GrowthTerminates == [][GrowthLaw]_vars

(* Expr on "a+a+a" re-entered for the third time: the answers were 1, 3    *)
(* and 5.                                                                  *)
GrowthTerminatesWitness ==
    /\ root = Ref("Expr", 0)
    /\ text = Chain(5)
    /\ status = "parsing"
    /\ lrmemo_stack_ /= <<>>
    /\ Back(lrmemo_stack_).sa.ir = 5
    /\ Back(lrmemo_stack_).sr.ir = 0
    /\ pc = Back(lrmemo_stack_).pca
    /\ ir = 0

(***************************************************************************)
(* C30.  A call with nonzero precedence at ir to target pca, when an open  *)
(* memo with the same (sr.ir, pca) exists, fails if the memo's answer is   *)
(* FAIL or the call's precedence is lower than the memo's, and otherwise   *)
(* sets (ir, cr, lr) to the memo's answer and appends the memo's responses *)
(* without pushing a frame; when there is no such memo it pushes exactly   *)
(* one LrCall frame seeded with answer FAIL.                               *)
(***************************************************************************)
LrCallAt == At("call") /\ Decoded.imm /= 0

CallTarget == Decoded.pc + Decoded.off

OpenMemos ==
    {k \in 1..Len(lrmemo_stack_) :
       /\ lrmemo_stack_[k].sr.ir = ir
       /\ lrmemo_stack_[k].pca = CallTarget}

TopOf(ks) == CHOOSE k \in ks : \A j \in ks : j <= k

LrCallLaw ==
    LrCallAt =>
      IF OpenMemos /= {}
      THEN LET memo == lrmemo_stack_[TopOf(OpenMemos)] IN
           IF memo.sa.ir = lrfailcode \/ Decoded.imm < memo.prec
           THEN Pass(goto_failure(Fetched))
           ELSE /\ <<ir', cr', lr'>> = <<memo.sa.ir, memo.sa.cr, memo.sa.lr>>
                /\ responses_' = responses_ \o memo.responses
                /\ rc' = Len(responses_')
                /\ pc' = Decoded.pc
                /\ stack_frames_' = stack_frames_
                /\ lrmemo_stack_' = lrmemo_stack_
      ELSE /\ stack_frames_' = Append(stack_frames_, "lrcall")
           /\ lrmemo_stack_' =
                Append(lrmemo_stack_,
                       [sr |-> [ir |-> ir, cr |-> cr, lr |-> lr],
                        sa |-> [ir |-> lrfailcode, cr |-> 0, lr |-> 0],
                        rcr |-> rc, pcr |-> Decoded.pc, pca |-> CallTarget,
                        responses |-> <<>>, prec |-> Decoded.imm])
           /\ pc' = CallTarget
           /\ <<ir', cr', lr', rc'>> = <<ir, cr, lr, rc>>
           /\ UNCHANGED <<backtrack_stack_, call_stack_, capture_stack_,
                          responses_>>

LeftRecursiveCall == [][LrCallLaw]_vars

(* A call that finds the memo of its own rule holding an answer with       *)
(* responses, at a precedence the memo admits.                             *)
LeftRecursiveCallWitness ==
    /\ LrCallAt
    /\ OpenMemos /= {}
    /\ lrmemo_stack_[TopOf(OpenMemos)].sa.ir /= lrfailcode
    /\ lrmemo_stack_[TopOf(OpenMemos)].responses /= <<>>
    /\ Decoded.imm >= lrmemo_stack_[TopOf(OpenMemos)].prec

(***************************************************************************)
(* C31.  commit_back restores only ir, cr and lr from the top Backtrack    *)
(* frame and leaves rc and the response log as they are, so the responses  *)
(* recorded inside a successful &e are dispatched on accept, whereas those *)
(* recorded inside !!e are not.                                            *)
(***************************************************************************)
CommitBackAt ==
    /\ At("commit")
    /\ Decoded.alt = altcode_commit_back
    /\ stack_frames_ /= <<>>
    /\ Back(stack_frames_) = "backtrack"

CommitBackLaw ==
    CommitBackAt =>
      LET f == Back(backtrack_stack_)
      IN /\ <<ir', cr', lr'>> = <<f.ir, f.cr, f.lr>>
         /\ rc' = rc
         /\ responses_' = responses_

LookaheadResponses ==
    (IsLookahead /\ Returned /\ result)
    => LET plain  == Run(GrammarOf(Then(root.a, LookedAt)), text)
           before == Run(GrammarOf(root.a), text)
       IN IF root.b.t = "and"
          THEN CallbacksOf(dispatched) = CallbacksOf(plain.dispatched)
          ELSE CallbacksOf(dispatched) = CallbacksOf(before.dispatched)

LookaheadKeepsResponses == []LookaheadResponses /\ [][CommitBackLaw]_vars

(* &(a<A1 > any<A2) has succeeded on "ab" and both actions have run.       *)
LookaheadKeepsResponsesWitness ==
    /\ root = Then(eps, And(Then(Act(chr("a"), "A1"), Act(any, "A2"))))
    /\ text = <<"a", "b">>
    /\ Returned
    /\ result
    /\ CallbacksOf(dispatched) = <<"A1", "A2">>
    /\ registers_.ir = 0

(***************************************************************************)
(* C32.  commit_partial leaves the depth of every stack unchanged and      *)
(* overwrites only the saved (ir, cr, lr, rc) of the top Backtrack frame,  *)
(* whose resume pc is kept; plain commit and commit_back pop exactly one   *)
(* Backtrack frame; all three fail instead when the top frame is not a     *)
(* Backtrack frame.                                                        *)
(***************************************************************************)
OnBacktrackFrame ==
    stack_frames_ /= <<>> /\ Back(stack_frames_) = "backtrack"

CommitLaw ==
    At("commit") =>
      IF ~OnBacktrackFrame THEN Pass(goto_failure(Fetched))
      ELSE /\ UNCHANGED <<call_stack_, capture_stack_, lrmemo_stack_>>
           /\ IF Decoded.alt = altcode_commit_partial
              THEN LET f == Back(backtrack_stack_)
                       n == Len(backtrack_stack_)
                   IN /\ stack_frames_' = stack_frames_
                      /\ backtrack_stack_' =
                           [backtrack_stack_ EXCEPT ![n] =
                              [ir |-> ir, cr |-> cr, lr |-> lr, rc |-> rc,
                               pc |-> f.pc]]
              ELSE /\ stack_frames_' = PopBack(stack_frames_)
                   /\ backtrack_stack_' = PopBack(backtrack_stack_)

CommitFrames == [][CommitLaw]_vars

(* A commit_partial of *"a" about to overwrite a frame saved two bytes     *)
(* earlier.                                                                *)
CommitFramesWitness ==
    /\ root = Star(chr("a"))
    /\ At("commit")
    /\ Decoded.alt = altcode_commit_partial
    /\ OnBacktrackFrame
    /\ ir = 2
    /\ Back(backtrack_stack_).ir = 1

(***************************************************************************)
(* C33.  Every response is recorded with call_depth = |call_stack_| +      *)
(* |lrmemo_stack_| at the moment its action or end_capture executes, and   *)
(* the response dispatched on accept carries that same depth, also when it *)
(* was dropped into an LR memo and restored at another stack depth.        *)
(***************************************************************************)
DepthNow == Len(call_stack_) + Len(lrmemo_stack_)

(* The responses of a state: those of the log and those kept in memos.     *)
Range1(s) == {s[i] : i \in 1..Len(s)}

KeptResponses(log, memos) ==
    Range1(log) \cup UNION {Range1(memos[k].responses) : k \in 1..Len(memos)}

RecordedAtDepth ==
    /\ At("action") =>
         responses_' = Append(responses_,
                              [call_depth |-> DepthNow,
                               action_index |-> Decoded.imm,
                               capture_index |-> no_capture])
    /\ (At("end_capture") /\ error' = ""
          /\ Len(responses_') > 0 /\ Len(captures_') > Len(captures_)) =>
         /\ Back(responses_').call_depth = DepthNow
         /\ Back(responses_').capture_index = Len(captures_)
         /\ KeptResponses(PopBack(responses_'), lrmemo_stack_')
              \subseteq KeptResponses(responses_, lrmemo_stack_)
    /\ ~(At("action") \/ At("end_capture")) =>
         KeptResponses(responses_', lrmemo_stack_')
           \subseteq KeptResponses(responses_, lrmemo_stack_)

DispatchedAtDepth ==
    (status = "parsing" /\ Len(dispatched') > Len(dispatched)) =>
      /\ SubSeq(dispatched', 1, Len(dispatched)) = dispatched
      /\ \A i \in (Len(dispatched) + 1)..Len(dispatched') :
           \E r \in KeptResponses(responses_, lrmemo_stack_) :
             /\ dispatched'[i].depth = r.call_depth
             /\ dispatched'[i].callback = CallbackOf(r)

SavedPositions ==
    {backtrack_stack_[i].ir : i \in 1..Len(backtrack_stack_)}
    \cup {capture_stack_[i].ir : i \in 1..Len(capture_stack_)}
    \cup {lrmemo_stack_[i].sr.ir : i \in 1..Len(lrmemo_stack_)}

SubjectAheadOfFrames ==
    status = "parsing" => \A saved \in SavedPositions : saved <= ir

(***************************************************************************)
(* C35.  For every instruction prefix length(prefix) = 1, + 1 with the off *)
(* flag, + ceil((low byte of val + 1) / 4) with the str flag, and decode   *)
(* advances pc by exactly length(prefix); a string instruction encoded     *)
(* from b bytes and r runes, b and r in 1..256, decodes to a string of b   *)
(* bytes and the immediate r.                                              *)
(***************************************************************************)
CeilDiv(a, b) == (a + b - 1) \div b

SamplePrefixes ==
    {Pf(op, aux, val) :
       op \in {"match"},
       aux \in {0, operands_off + altcode_commit_back, operands_str,
                operands_off + operands_str},
       val \in {0, 2, 3, 4, 7, 8, 255, 256, 259, ushort_max}}

(* The words of an instruction with prefix pf.                             *)
WordsOf(pf) ==
    <<pf>> \o (IF HasOff(pf.aux) THEN <<OffWord(0 - 3)>> ELSE <<>>)
           \o (IF HasStr(pf.aux)
               THEN AppendStrWords(NewEncoder("program"),
                                   Bytes((pf.val % 256) + 1))
                        .prog.instructions
               ELSE <<>>)

PrefixLaw ==
    \A pf \in SamplePrefixes :
      LET words == WordsOf(pf)
      IN /\ length(pf) = 1 + (IF HasOff(pf.aux) THEN 1 ELSE 0)
                           + (IF HasStr(pf.aux)
                              THEN CeilDiv((pf.val % 256) + 1, 4) ELSE 0)
         /\ Len(words) = length(pf)
         /\ decode(words \o <<Pf("ret", 0, 0)>>, 0).pc = length(pf)

ByteCounts == {1, 3, 4, 5, maxstrlen - 1, maxstrlen}

RuneCounts == {1, 2, maxstrlen}

StringLaw ==
    \A b \in ByteCounts : \A r \in RuneCounts :
      LET code == encode_str(NewEncoder("program"), "match", r, Bytes(b))
                      .prog.instructions
          I == decode(code, 0)
      IN /\ I.str = Bytes(b)
         /\ I.imm = r
         /\ I.pc = Len(code)
         /\ code[1].val = ((r - 1) * 256) + (b - 1)
         /\ code[1].val <= ushort_max

(* The instruction the loop is at decodes to the length of its prefix.     *)
DecodedLength ==
    status = "parsing" =>
      LET pf == prog.instructions[pc + 1]
      IN /\ Decoded.pc = pc + length(pf)
         /\ HasStr(pf.aux) =>
              /\ Len(Decoded.str) = (pf.val % 256) + 1
              /\ Decoded.imm = (pf.val \div 256) + 1

InstructionLength == PrefixLaw /\ StringLaw /\ DecodedLength

(* The loop is at the match of a literal of 255 bytes, 64 words of string. *)
InstructionLengthWitness ==
    /\ root = Lit(Bytes(maxstrlen - 1))
    /\ text = Bytes(maxstrlen - 1)
    /\ At("match")
    /\ Decoded.str = Bytes(maxstrlen - 1)
    /\ Decoded.pc = pc + 65

(***************************************************************************)
(* C36.  program::concatenate(src) appends exactly |src.instructions|      *)
(* words, every word unchanged except that the index of a predicate,       *)
(* action or end_capture instruction grows by the size the destination's   *)
(* side table had before the call; src's side tables are appended in       *)
(* order, so a rebased index names the callback it named before; the call  *)
(* raises the limit error exactly when a rebased index would exceed 16     *)
(* bits.  src is the program of the parser's grammar, the destination a    *)
(* program with side tables of the sizes below.                            *)
(***************************************************************************)
Table(n) == [i \in 1..n |-> "D"]

Destination(np, na, nc) ==
    [instructions |-> <<Pf("ret", 0, 0)>>, predicates |-> Table(np),
     actions |-> Table(na), captures |-> Table(nc), matches_eps |-> TRUE]

SampleDestinations ==
    {Destination(0, 0, 0), Destination(2, 1, 3),
     Destination(ushort_max, ushort_max, ushort_max),
     Destination(ushort_max + 1, 0, 0), Destination(0, ushort_max + 1, 0),
     Destination(0, 0, ushort_max + 1)}

RECURSIVE PrefixesFrom(_, _)
PrefixesFrom(code, i) ==
    IF i > Len(code) THEN {}
    ELSE {i} \cup PrefixesFrom(code, i + length(code[i]))

Indexing == {"predicate", "action", "end_capture"}

(* The size of the side table of dst that the prefix word w indexes.       *)
TableSize(dst, w) ==
    CASE w.op = "predicate" -> Len(dst.predicates)
      [] w.op = "action" -> Len(dst.actions)
      [] w.op = "end_capture" -> Len(dst.captures)
      [] OTHER -> 0

TableOf(p, w) ==
    CASE w.op = "predicate" -> p.predicates
      [] w.op = "action" -> p.actions
      [] w.op = "end_capture" -> p.captures

ConcatenateLaw(dst, src, r) ==
    LET prefixes == PrefixesFrom(src.instructions, 1)
        n == Len(dst.instructions)
        rebased(k) == IF src.instructions[k].op \in Indexing
                      THEN src.instructions[k].val
                             + TableSize(dst, src.instructions[k])
                      ELSE src.instructions[k].val
        beyond == \E k \in prefixes :
                    /\ src.instructions[k].op \in Indexing
                    /\ rebased(k) > ushort_max
        out == r.program
    IN /\ r.error = (IF beyond THEN "resource_limit_error" ELSE "")
       /\ r.error = "" =>
            /\ Len(out.instructions) = n + Len(src.instructions)
            /\ SubSeq(out.instructions, 1, n) = dst.instructions
            /\ \A k \in 1..Len(src.instructions) :
                  out.instructions[n + k] =
                    IF k \in prefixes
                    THEN [src.instructions[k] EXCEPT !.val = rebased(k)]
                    ELSE src.instructions[k]
            /\ out.predicates = dst.predicates \o src.predicates
            /\ out.actions = dst.actions \o src.actions
            /\ out.captures = dst.captures \o src.captures
            /\ \A k \in prefixes :
                  src.instructions[k].op \in Indexing =>
                    TableOf(out, src.instructions[k])[rebased(k) + 1]
                      = TableOf(src, src.instructions[k])
                          [src.instructions[k].val + 1]
            /\ out = concatenate(dst, src)

ConcatenateRebases ==
    status = "constructed" =>
      \A dst \in SampleDestinations : \A header \in Headers :
        ConcatenateLaw(dst, prog, CallConcatenate(dst, prog, header))

(* The same, for the concatenate of lug/lug.hpp alone.                     *)
ConcatenateRebasesInLug ==
    status = "constructed" =>
      \A dst \in SampleDestinations :
        ConcatenateLaw(dst, prog, CallConcatenate(dst, prog, "lug/lug.hpp"))

(***************************************************************************)
(* C37.  encoder::match on a string of more than 256 bytes terminates, and *)
(* the strings of the match blocks it emits, joined in order, are the      *)
(* string; each block holds 1 to 256 bytes and each block after the first  *)
(* begins with a UTF-8 lead byte.                                          *)
(***************************************************************************)
RECURSIVE Joined(_)
Joined(blocks) ==
    IF blocks = <<>> THEN <<>> ELSE Head(blocks) \o Joined(Tail(blocks))

(* The strings of the instructions of code from pc on, all of them match.  *)
RECURSIVE EmittedBlocks(_, _)
EmittedBlocks(code, at) ==
    IF at >= Len(code) THEN <<>>
    ELSE LET I == decode(code, at)
         IN <<I>> \o EmittedBlocks(code, I.pc)

Continuations(n) == [i \in 1..n |-> "T"]

(* Strings of bytes that are not UTF-8: a rune of 257 bytes, continuation  *)
(* bytes alone, and continuation bytes before the only lead byte.          *)
Malformed ==
    {<<"L">> \o Continuations(maxstrlen), Continuations(maxstrlen + 1),
     Continuations(3) \o <<"L">> \o Continuations(maxstrlen),
     Bytes(maxstrlen - 1) \o <<"L">> \o Continuations(maxstrlen + 4)}

MatchLaw(s) ==
    LET r == BlockLoop(<<>>, s)
    IN /\ r.outcome = "returns"
       /\ Joined(r.blocks) = s
       /\ \A i \in 1..Len(r.blocks) :
             /\ Len(r.blocks[i]) \in 1..maxstrlen
             /\ i > 1 => is_lead(r.blocks[i][1])
       /\ LET emitted == EmittedBlocks(
                            match(NewEncoder("program"), s).prog.instructions,
                            0)
          IN /\ Len(emitted) = Len(r.blocks)
             /\ \A i \in 1..Len(emitted) :
                   /\ emitted[i].op = "match"
                   /\ emitted[i].str = r.blocks[i]
                   /\ emitted[i].imm = count_runes(r.blocks[i])

(* The literal of the grammar at hand, and the strings that are not UTF-8. *)
LongMatchBlocks ==
    /\ (status = "constructed" /\ root.t = "lit" /\ Len(root.s) > maxstrlen)
          => MatchLaw(root.s)
    /\ (status = "constructed" /\ text = <<>>)
          => \A s \in Malformed : MatchLaw(s)

(* The same, for the literals of well-formed UTF-8 alone.                  *)
LongMatchBlocksOfUtf8 ==
    (status = "constructed" /\ root.t = "lit" /\ Len(root.s) > maxstrlen)
      => MatchLaw(root.s)

(***************************************************************************)
(* C38.  eoi (choice 2; match_any; fail 1) succeeds iff no byte is         *)
(* available at ir once the sources have been pulled; when it succeeds     *)
(* ir, cr, lr, rc and the depth of the stack are what they were before     *)
(* eoi, and when it fails the byte match_any took is given back.           *)
(***************************************************************************)
WordAt(at) == prog.instructions[at + 1]

IsPrefix(at, op) ==
    /\ at >= 0 /\ at < Len(prog.instructions)
    /\ WordAt(at).k = "pf"
    /\ WordAt(at).op = op

(* choice 2; match_any; fail 1 begins at the word at.                      *)
EoiAt(at) ==
    /\ IsPrefix(at, "choice") /\ WordAt(at).val = 0 /\ WordAt(at + 1).off = 2
    /\ IsPrefix(at + 2, "match_any")
    /\ IsPrefix(at + 3, "fail") /\ WordAt(at + 3).val = 1

EoiFrame(at) ==
    /\ stack_frames_ /= <<>> /\ Back(stack_frames_) = "backtrack"
    /\ Back(backtrack_stack_).pc = at + 4

(* choice: the registers before eoi are saved in a new frame.              *)
EoiChoiceLaw ==
    (status = "parsing" /\ EoiAt(pc)) =>
      /\ status' = "parsing" /\ pc' = pc + 2
      /\ stack_frames_' = Append(stack_frames_, "backtrack")
      /\ backtrack_stack_' =
            Append(backtrack_stack_,
                   [ir |-> ir, cr |-> cr, lr |-> lr, rc |-> rc, pc |-> pc + 4])
      /\ <<ir', cr', lr', rc'>> = <<ir, cr, lr, rc>>

(* match_any: eoi succeeds, and resumes after fail with the saved          *)
(* registers and the frame popped, iff the buffer ends at ir after the     *)
(* pull; otherwise it goes on to fail.                                     *)
EoiMatchLaw ==
    (status = "parsing" /\ EoiAt(pc - 2) /\ EoiFrame(pc - 2)) =>
      LET saved == Back(backtrack_stack_)
          succeeds ==
            /\ status' = "parsing" /\ pc' = pc + 2
            /\ <<ir', cr', lr', rc'>>
                  = <<saved.ir, saved.cr, saved.lr, saved.rc>>
            /\ stack_frames_' = PopBack(stack_frames_)
            /\ backtrack_stack_' = PopBack(backtrack_stack_)
      IN /\ succeeds <=> ir >= Len(input_')
         /\ ir >= Len(input_') => sources_' = <<>>
         /\ ir < Len(input_') =>
               /\ status' = "parsing" /\ pc' = pc + 1
               /\ stack_frames_' = stack_frames_

(* fail 1: eoi fails; its frame is popped and the failure goes on to the   *)
(* frame below, or ends the parse at the position eoi began at.            *)
EoiFailLaw ==
    (status = "parsing" /\ EoiAt(pc - 3) /\ EoiFrame(pc - 3)) =>
      LET saved == Back(backtrack_stack_)
      IN /\ Len(stack_frames_') < Len(stack_frames_)
         /\ ~(status' = "parsing" /\ pc' = pc + 1
                /\ Len(stack_frames_') = Len(stack_frames_) - 1)
         /\ (status' /= "parsing" /\ Len(stack_frames_') = Len(stack_frames_) - 1)
               => ir' = saved.ir

EndOfInput == [][EoiChoiceLaw /\ EoiMatchLaw /\ EoiFailLaw]_vars

(* The same, for the steps taken with ir within the buffer.                *)
EndOfInputWithinBuffer ==
    [][ir <= Len(input_) => (EoiChoiceLaw /\ EoiMatchLaw /\ EoiFailLaw)]_vars

(***************************************************************************)
(* C39.  At every step of the loop cut_frame_ <= |stack_frames_| and       *)
(* ir <= |input_|, also once accept has erased the consumed prefix while   *)
(* older frames hold positions from before the cut.                        *)
(***************************************************************************)
CutFrameInRange == status = "parsing" => cut_frame_ <= Len(stack_frames_)

SubjectInRange == status = "parsing" => ir <= Len(input_)

FramesAndSubjectInRange == CutFrameInRange /\ SubjectInRange

(***************************************************************************)
(* C40.  read_more pulls only the source pushed last; a source is removed  *)
(* at the call that returns false and is not called again; pulling goes on *)
(* until text was appended or no source is left, and read_more returns     *)
(* true iff the last pull appended a byte; the bytes are appended to the   *)
(* buffer in the order of the pulls, and only accept removes bytes.        *)
(***************************************************************************)
(* The calls that use up a source: up to its first return of false; a      *)
(* source with nothing left to deliver returns false at once.              *)
RECURSIVE UpToFalse(_)
UpToFalse(src) ==
    IF src = <<>> THEN <<Quiet(FALSE)>>
    ELSE IF ~Head(src).more THEN <<Head(src)>>
    ELSE <<Head(src)>> \o UpToFalse(Tail(src))

IsSuffix(s, t) == Len(s) <= Len(t) /\ s = Drop(t, Len(t) - Len(s))

(* The calls made between the source stacks before and after, newest       *)
(* source first.                                                           *)
RECURSIVE PullsBetween(_, _, _)
PullsBetween(before, after, i) ==
    IF i = 0 \/ i < Len(after) THEN <<>>
    ELSE IF i > Len(after)
    THEN UpToFalse(before[i]) \o PullsBetween(before, after, i - 1)
    ELSE Take(before[i], Len(before[i]) - Len(after[i]))

RECURSIVE TextOf(_)
TextOf(pulls) ==
    IF pulls = <<>> THEN <<>> ELSE Head(pulls).text \o TextOf(Tail(pulls))

ReadLaw(before, buffer, after) ==
    LET pulls == PullsBetween(before.sources_, after.sources_,
                              Len(before.sources_))
        n == Len(after.sources_)
    IN /\ n <= Len(before.sources_)
       /\ \A i \in 1..(n - 1) : after.sources_[i] = before.sources_[i]
       /\ n > 0 => IsSuffix(after.sources_[n], before.sources_[n])
       /\ \A i \in 1..(Len(pulls) - 1) : pulls[i].text = <<>>
       /\ \A i \in 1..Len(pulls) :
             ~pulls[i].more => (i = Len(pulls) \/ n < Len(before.sources_))
       /\ (pulls /= <<>> /\ Back(pulls).text = <<>>) => n = 0
       /\ buffer = before.input_ \o TextOf(pulls)

(* read_more called in the state at hand.                                  *)
ReadMoreLaw ==
    (status = "parsing" /\ ~reading_) =>
      LET r == read_more(M)
      IN /\ ReadLaw(M, r.m.input_, r.m)
         /\ r.ok <=> r.m.input_ /= input_
         /\ ~r.ok => r.m.sources_ = <<>>
         /\ ~r.m.reading_

(* A step of the loop: what it pulls obeys the law, and bytes leave the    *)
(* buffer only in a step that runs accept.                                 *)
StepReadLaw ==
    status = "parsing" =>
      LET pulls == PullsBetween(sources_, sources_', Len(sources_))
          grown == input_ \o TextOf(pulls)
      IN /\ ReadLaw(M, grown, [sources_ |-> sources_'])
         /\ \/ input_' = grown
            \/ /\ At("accept") \/ cut_deferred_
               /\ IsSuffix(input_', grown)
         /\ (At("match_any") /\ ir = Len(input_)) =>
               (TextOf(pulls) /= <<>>
                  <=> (status' = "parsing" /\ pc' = pc + 1 /\ ir' > ir))

ReadMorePulls == [][ReadMoreLaw /\ StepReadLaw]_vars

(* The newer source was called three times and removed, the older one      *)
(* once, and the byte read before the cut is gone from the buffer.         *)
ReadMorePullsWitness ==
    /\ root = Then(Star(Then(any, cut)), eoi)
    /\ text = <<"a", "b", "a">>
    /\ status = "parsing"
    /\ sources_ = <<>>
    /\ input_ = <<"b", "a">>
    /\ ir = 1

====
